---- MODULE Spec2Model ----
(***************************************************************************)
(* A model of the oidn-rs wrapper (src/src/device.rs, buffer.rs,          *)
(* filter.rs) over the native Open Image Denoise handle API.               *)
(*                                                                         *)
(* The wrapper objects (Device, Buffer, RayTracing) are records holding    *)
(* native handles; the native side is three tables (ndev, nbuf, nfilt)     *)
(* holding what the engine keeps per handle.  Every wrapper method is one  *)
(* action; the native calls it makes are applied to the native tables in   *)
(* the order of the code and logged in `calls`.  After a method has run,    *)
(* `op`, `ret`, `calls` and `out` show the call, its result, its native     *)
(* calls and the caller's output slice until the caller goes on (Return).  *)
(***************************************************************************)
EXTENDS Integers, Sequences, FiniteSets, Bags, TLC

\* ------------------------------------------------------------------ bounds
\* Image sizes: width * height <= MaxDim pixels.
MaxDim == 1
\* Native buffers alive (the caller's and the staged ones) up to which the
\* caller creates another Buffer.
MaxUserBufs == 3
\* Device wrappers and RayTracing filters the caller holds at one time.
NumDevices == 2
NumFilters == 2
\* Threads of the program.
NumThreads == 2
\* Buffer operations: slices of at most MaxLen floats, on at most MaxHeld
\* Buffers held by the caller at one time.
MaxLen == 2
MaxHeld == 1
\* usize::BITS, scaled down: sizes and dimensions are WordBits wide.
WordBits == 4

\* ------------------------------------------------------- program constants
\* Channels per pixel: `3 * width * height`.
Channels == 3
\* mem::size_of::<f32>()
SizeOfF32 == 4

\* ------------------------------------------------------------------ values
None == <<>>
Some(x) == <<x>>
IsSome(o) == o # <<>>

\* Error, lib.rs
InvalidArgument == "InvalidArgument"
OutOfMemory == "OutOfMemory"
InvalidImageDimensions == "InvalidImageDimensions"
\* Result / Option values a method returns
Ok == "Ok"
RetNone == "None"
RetSome == "Some"
RetSelf == "self"
Panic == "panic"
Err(e) == e
ValidatingErrors == {InvalidImageDimensions, InvalidArgument}
Errors == {InvalidImageDimensions, InvalidArgument, OutOfMemory}

\* Float data is kept as a sequence of the right length whose elements name
\* where the data comes from: the caller's albedo, normal, color or output
\* slice, the contents the caller gave a Buffer, or the engine's result.
DataOf(len, v) == [i \in 1..len |-> v]
Pixels == 0..MaxDim
\* The caller's slices of one kind: every length 3*n.
SlicesOf(v) == {DataOf(Channels * n, v) : n \in Pixels}
\* The (width, height) pairs the caller sets: every image of at most MaxDim
\* pixels.  (A new filter has dimensions (0, 0), which fit the empty slice.)
DimPairs == {wh \in (1..MaxDim) \X (1..MaxDim) : wh[1] * wh[2] <= MaxDim}

\* Whether each of two allocations in a row succeeds: the second is not
\* attempted when the first fails.
TwoAllocs == {ok \in BOOLEAN \X BOOLEAN : ok[1] \/ ok[2]}

\* The floats of the slices given to Buffer operations: two values that
\* differ, and every slice of at most MaxLen of them.
Floats == {"x", "y"}
Slices == UNION {[1..n -> Floats] : n \in 0..MaxLen}
\* Byte sizes of the native buffers imported with create_buffer_from_raw.
RawByteSizes == 0..(SizeOfF32 * MaxLen)

DevSlots == 1..NumDevices
FiltSlots == 1..NumFilters
\* Addresses the native library hands out for devices and filters.
DevHandles == 1..NumDevices
\* Addresses the allocator hands out for the Arc<u8> of a Device.
ArcAddrs == 1..NumDevices
FiltHandles == 1..NumFilters
ImageNames == {"albedo", "normal", "color", "output"}
Threads == 1..NumThreads

VARIABLES
    dev,      \* Device wrappers the caller holds: slot -> None | Some(Device)
    ndev,     \* native devices: handle -> [rc, committed, commits, freed, over, error]
    nbuf,     \* native buffers: [live], how many are allocated and not released
    pool,     \* Buffers the caller holds (a bag of Buffer records)
    filt,     \* RayTracing wrappers the caller holds: slot -> None | Some(RayTracing)
    nfilt,    \* native filters: handle -> [rc, images, the scalar parameters]
    op,       \* the method that ran last: [name, f, args]
    ret,      \* what it returned
    calls,    \* the native calls it made, in order
    out,      \* the caller's output slice as the last filter call left it
    thread    \* which thread owns each Device and RayTracing, and the method
              \* each thread is inside: [dev, filt, in]

vars == <<dev, ndev, nbuf, pool, filt, nfilt, op, ret, calls, out, thread>>

\* ------------------------------------------------------------ native layer
\* images[name]: whether an image is bound under that name.  What each
\* oidnSetFilterImage call bound (buffer size, width, height) is in the call log.
NoImages == [n \in ImageNames |-> FALSE]
\* A native filter nobody has created (or that was destroyed).
NoNativeFilter ==
    [rc |-> 0, images |-> NoImages, hdr |-> None, inputScale |-> None,
     srgb |-> None, clean_aux |-> None, quality |-> None]
\* A native device: its reference count, whether it was committed, how many
\* times the count fell to 0 (the device is destroyed then), and whether a
\* release was called on it after that.
\* The error a native device has stored: the code and the message.
NoError == [code |-> "OIDN_ERROR_NONE", message |-> ""]
\* commits: how many times oidnCommitDevice was called on it.
NoNativeDevice ==
    [rc |-> 0, committed |-> FALSE, commits |-> 0, freed |-> 0, over |-> FALSE,
     error |-> NoError]
\* The null handle: what oidnNewDevice returns when it cannot make a device.
\* The native calls do nothing to a device when they are given it.
NullHandle == 0
oidnNewDevice(nd, h) == IF h = NullHandle THEN nd ELSE [nd EXCEPT ![h].rc = 1]
oidnCommitDevice(nd, h) ==
    IF h = NullHandle THEN nd
    ELSE [nd EXCEPT ![h].committed = TRUE, ![h].commits = @ + 1]
oidnRetainDevice(nd, h) == IF h = NullHandle THEN nd ELSE [nd EXCEPT ![h].rc = @ + 1]
oidnReleaseDevice(nd, h) ==
    IF h = NullHandle THEN nd
    ELSE IF nd[h].rc = 0 THEN [nd EXCEPT ![h].over = TRUE]
    ELSE [nd EXCEPT ![h].rc = @ - 1,
                    ![h].freed = IF nd[h].rc = 1 THEN @ + 1 ELSE @]
\* The codes of sys that Error names (lib.rs), and the errors the engine can
\* record on the device while it commits or executes a filter.
NativeErrorCodes ==
    {"OIDN_ERROR_UNKNOWN", "OIDN_ERROR_INVALID_ARGUMENT", "OIDN_ERROR_INVALID_OPERATION",
     "OIDN_ERROR_OUT_OF_MEMORY", "OIDN_ERROR_UNSUPPORTED_HARDWARE",
     "OIDN_ERROR_CANCELLED"}
EngineErrors == {[code |-> c, message |-> "msg"] : c \in NativeErrorCodes}
\* oidnCommitFilter / oidnExecuteFilter on a filter of device h, the engine
\* finding error e (NoError: none).  The device keeps the first error that
\* was not queried yet.
RecordError(nd, h, e) ==
    IF e = NoError \/ nd[h].error # NoError THEN nd ELSE [nd EXCEPT ![h].error = e]
\* oidnGetDeviceError: the stored error is returned and cleared.
oidnGetDeviceError(nd, h) ==
    [err |-> nd[h].error.code, err_msg |-> nd[h].error.message,
     nd |-> [nd EXCEPT ![h].error = NoError]]
oidnNewFilter(nf, fh) == [nf EXCEPT ![fh] = [NoNativeFilter EXCEPT !.rc = 1]]
oidnReleaseFilter(nf, fh) == [nf EXCEPT ![fh] = NoNativeFilter]

\* A native call in the log: the function, then the arguments the model keeps.
Call(fn) == <<fn>>
\* The method that ran last, the slot of the object it ran on, its arguments.
Op(name, f, args) == [name |-> name, f |-> f, args |-> args]

\* A native buffer is owned by exactly one Buffer wrapper, so the wrapper's
\* `buf` field holds the native buffer's contents instead of its address, and
\* nbuf.live counts the native buffers allocated and not yet released.
oidnNewBuffer(nb) == [nb EXCEPT !.live = @ + 1]
oidnReleaseBuffer(nb) == [nb EXCEPT !.live = @ - 1]

oidnSetFilterImage(nf, fh, name) == [nf EXCEPT ![fh].images[name] = TRUE]
SetImageCall(name, b, dims) == <<"oidnSetFilterImage", name, b.size, dims[1], dims[2]>>

\* oidnExecuteFilter: the engine fills the output image; with what is the
\* engine's business (v, an input of the executing action).
Denoise(data, v) == DataOf(Len(data), v)

\* -------------------------------------------------------------- buffer.rs
\* Buffer.id, the identity token filter.rs compares with `device.0 as isize`.
BufferId(D) == D.handle

\* Device::create_buffer: [buffer |-> None | Some(Buffer), nb, calls].
\* allocOk: whether oidnNewBuffer returns a non-null handle.
create_buffer(D, nb, contents, allocOk) ==
    IF ~allocOk
    THEN [buffer |-> None, nb |-> nb, calls |-> <<Call("oidnNewBuffer")>>]
    ELSE [buffer |-> Some([buf |-> contents, size |-> Len(contents),
                           id |-> BufferId(D), device_arc |-> D.arc]),
          nb |-> oidnNewBuffer(nb),
          calls |-> <<Call("oidnNewBuffer"), Call("oidnWriteBuffer")>>]

\* Buffer::write, the case the filter uses: the sizes are equal.
write(b, contents) == [b EXCEPT !.buf = contents]

\* mem::size_of_val(contents) for contents: &[f32]
size_of_val(contents) == SizeOfF32 * Len(contents)
\* oidnWriteBuffer(buf, byteOffset, byteSize, src): data is what the native
\* buffer holds, as floats; the first byteSize bytes of src are copied to
\* byteOffset.  Whole floats only: the wrapper passes multiples of 4.
oidnWriteBuffer(data, byteOffset, byteSize, src) ==
    LET first == byteOffset \div SizeOfF32
        n == byteSize \div SizeOfF32
    IN [i \in 1..Len(data) |->
          IF i > first /\ i <= first + n THEN src[i - first] ELSE data[i]]
\* oidnReadBuffer(buf, byteOffset, byteSize, dst): byteSize bytes at
\* byteOffset of the native buffer are copied to the start of dst.
oidnReadBuffer(data, byteOffset, byteSize, dst) ==
    LET first == byteOffset \div SizeOfF32
        n == byteSize \div SizeOfF32
    IN [i \in 1..Len(dst) |-> IF i <= n THEN data[first + i] ELSE dst[i]]
\* oidnGetBufferSize: the byte size the native buffer was allocated with.
oidnGetBufferSize(raw) == raw.bytes

\* Device::create_buffer_from_raw.  raw: the native buffer the caller made,
\* [bytes, data].
create_buffer_from_raw(D, raw) ==
    [buf |-> raw.data, size |-> oidnGetBufferSize(raw) \div SizeOfF32,
     id |-> BufferId(D), device_arc |-> D.arc]

\* Device::same_device_as_buf: the addresses of the two Arc allocations are
\* compared.
same_device_as_buf(D, b) == D.arc = b.device_arc

\* Buffer_write as it would be if it passed the element count, instead of
\* the byte size, to oidnWriteBuffer.
Buffer_write_LenBytes(b, contents) ==
    IF b.size # Len(contents)
    THEN [ret |-> RetNone, b |-> b, calls |-> <<>>]
    ELSE [ret |-> RetSome,
          b |-> [b EXCEPT !.buf = oidnWriteBuffer(@, 0, Len(contents), contents)],
          calls |-> <<Call("oidnWriteBuffer")>>]

\* Buffer_write as it would be if a slice of another length made the Buffer
\* take the slice's length.
Buffer_write_Resizing(b, contents) ==
    [ret |-> RetSome, b |-> [b EXCEPT !.buf = contents, !.size = Len(contents)],
     calls |-> <<Call("oidnWriteBuffer")>>]

\* Buffer::write as the caller calls it: [ret, b, calls]
Buffer_write(b, contents) ==
    IF b.size # Len(contents)
    THEN [ret |-> RetNone, b |-> b, calls |-> <<>>]
    ELSE [ret |-> RetSome,
          b |-> [b EXCEPT !.buf = oidnWriteBuffer(@, 0, size_of_val(contents), contents)],
          calls |-> <<Call("oidnWriteBuffer")>>]

\* Buffer_read_to_slice as it would be if it only refused slices longer
\* than the Buffer.
Buffer_read_to_slice_AtLeast(b, contents) ==
    IF b.size < Len(contents)
    THEN [ret |-> RetNone, contents |-> contents, calls |-> <<>>]
    ELSE [ret |-> RetSome,
          contents |-> oidnReadBuffer(b.buf, 0, size_of_val(contents), contents),
          calls |-> <<Call("oidnReadBuffer")>>]

\* Buffer::read_to_slice: [ret, contents, calls], contents is the caller's
\* slice afterwards.
Buffer_read_to_slice(b, contents) ==
    IF b.size # Len(contents)
    THEN [ret |-> RetNone, contents |-> contents, calls |-> <<>>]
    ELSE [ret |-> RetSome,
          contents |-> oidnReadBuffer(b.buf, 0, size_of_val(contents), contents),
          calls |-> <<Call("oidnReadBuffer")>>]

\* Buffer::read: the vector returned, vec![0.0; size] filled by the read.
Buffer_read(b) ==
    oidnReadBuffer(b.buf, 0, b.size * SizeOfF32, DataOf(b.size, "0.0"))

\* Buffer::size
Buffer_size(b) == b.size

\* Drop for Buffer
drop_buffer(nb, b) == oidnReleaseBuffer(nb)
\* drop_opt as it would be if dropping a staged Buffer released nothing.
drop_opt_Leak(nb, o) == nb
\* Dropping an Option<Buffer>
drop_opt(nb, o) == IF IsSome(o) THEN drop_buffer(nb, o[1]) ELSE nb
drop_calls(o) == IF IsSome(o) THEN <<Call("oidnReleaseBuffer")>> ELSE <<>>

\* The caller's Buffers, a bag.
PoolAdd(p, b) == p (+) SetToBag({b})
PoolDel(p, b) == p (-) SetToBag({b})
InPool(b) == BagIn(b, pool)
\* Two different Buffers of the caller.
TwoInPool(a, b) == InPool(a) /\ InPool(b) /\ (a = b => CopiesIn(a, pool) >= 2)

\* -------------------------------------------------------------- filter.rs
\* usize arithmetic.  A product that does not fit is wrapped where the build
\* has overflow checks off (release) and panics where it has them on (debug).
WordModulus == 2 ^ WordBits
Words == 0..(WordModulus - 1)
wrapping_mul(a, b) == (a * b) % WordModulus
\* `3 * width * height`: (3 * width) * height in usize.
Dims(width, height) == wrapping_mul(wrapping_mul(Channels, width), height)
\* Whether one of the two multiplications overflows.
DimsOverflow(width, height) ==
    \/ Channels * width >= WordModulus
    \/ wrapping_mul(Channels, width) * height >= WordModulus

\* RayTracing::new, the wrapper's fields.  An OIDNQuality is kept by name:
\* "0" is the raw value 0 a new filter has, the others are the constants of
\* sys that Quality::as_raw_oidn_quality returns.
NewRayTracing(fh, d) ==
    [handle |-> fh, device |-> d, albedo |-> None, normal |-> None,
     hdr |-> FALSE, input_scale |-> "NaN", srgb |-> FALSE, clean_aux |-> FALSE,
     img_dims |-> <<0, 0, 0>>, filter_quality |-> "0"]

\* ExecAux as it would be with the normal image handled after, instead of
\* inside, the albedo branch.
ExecAux_NormalAlone(F, nf) ==
    LET a == IF F.albedo = None
             THEN [err |-> None, nf |-> nf, calls |-> <<>>]
             ELSE IF F.albedo[1].size # F.img_dims[3]
                  THEN [err |-> Some(InvalidImageDimensions), nf |-> nf, calls |-> <<>>]
                  ELSE [err |-> None, nf |-> oidnSetFilterImage(nf, F.handle, "albedo"),
                        calls |-> <<SetImageCall("albedo", F.albedo[1], F.img_dims)>>]
    IN IF IsSome(a.err) \/ F.normal = None THEN a
       ELSE IF F.normal[1].size # F.img_dims[3]
            THEN [a EXCEPT !.err = Some(InvalidImageDimensions)]
            ELSE [err |-> None, nf |-> oidnSetFilterImage(a.nf, F.handle, "normal"),
                  calls |-> Append(a.calls,
                                   SetImageCall("normal", F.normal[1], F.img_dims))]

\* execute_filter_buffer, lines 264-302: the staged auxiliary images.
\* [err, nf, calls]: err is None when the checks passed.
ExecAux(F, nf) ==
    IF F.albedo = None
    THEN [err |-> None, nf |-> nf, calls |-> <<>>]
    ELSE LET alb == F.albedo[1] IN
         IF alb.size # F.img_dims[3]
         THEN [err |-> Some(InvalidImageDimensions), nf |-> nf, calls |-> <<>>]
         ELSE LET nf1 == oidnSetFilterImage(nf, F.handle, "albedo")
                  calls1 == <<SetImageCall("albedo", alb, F.img_dims)>>
              IN
              IF F.normal = None
              THEN [err |-> None, nf |-> nf1, calls |-> calls1]
              ELSE LET norm == F.normal[1] IN
                   IF norm.size # F.img_dims[3]
                   THEN [err |-> Some(InvalidImageDimensions), nf |-> nf1,
                         calls |-> calls1]
                   ELSE [err |-> None,
                         nf |-> oidnSetFilterImage(nf1, F.handle, "normal"),
                         calls |-> Append(calls1,
                                          SetImageCall("normal", norm, F.img_dims))]

\* ExecColor as it would be without the color size check of line 308.
ExecColor_NoSizeCheck(F, D, color, output) ==
    IF IsSome(color)
    THEN IF color[1].id # D.handle
         THEN [err |-> Some(InvalidArgument), color_buffer |-> output]
         ELSE [err |-> None, color_buffer |-> color[1]]
    ELSE IF output.size # F.img_dims[3]
         THEN [err |-> Some(InvalidImageDimensions), color_buffer |-> output]
         ELSE [err |-> None, color_buffer |-> output]

\* execute_filter_buffer, lines 303-321: the color buffer (the output buffer
\* when filtering in place).  [err, color_buffer]
ExecColor(F, D, color, output) ==
    IF IsSome(color)
    THEN IF color[1].id # D.handle
         THEN [err |-> Some(InvalidArgument), color_buffer |-> output]
         ELSE IF color[1].size # F.img_dims[3]
              THEN [err |-> Some(InvalidImageDimensions), color_buffer |-> output]
              ELSE [err |-> None, color_buffer |-> color[1]]
    ELSE IF output.size # F.img_dims[3]
         THEN [err |-> Some(InvalidImageDimensions), color_buffer |-> output]
         ELSE [err |-> None, color_buffer |-> output]

\* ExecOutput as it would be without the identity check of line 335.
ExecOutput_NoIdCheck(F, D, output) ==
    IF output.size # F.img_dims[3] THEN Some(InvalidImageDimensions) ELSE None

\* execute_filter_buffer, lines 335-340: the output buffer.
ExecOutput(F, D, output) ==
    IF output.id # D.handle
    THEN Some(InvalidArgument)
    ELSE IF output.size # F.img_dims[3]
         THEN Some(InvalidImageDimensions)
         ELSE None

\* SetParams as it would be if a parameter were set on the native filter
\* only while it has no value there.
SetParams_OnlyUnset(F, nf) ==
    [oidnSetFilterImage(nf, F.handle, "output")
        EXCEPT ![F.handle].hdr = IF @ = None THEN Some(F.hdr) ELSE @,
               ![F.handle].inputScale = IF @ = None THEN Some(F.input_scale) ELSE @,
               ![F.handle].srgb = IF @ = None THEN Some(F.srgb) ELSE @,
               ![F.handle].clean_aux = IF @ = None THEN Some(F.clean_aux) ELSE @,
               ![F.handle].quality = IF @ = None THEN Some(F.filter_quality) ELSE @]

\* lines 341-366: the output image and the scalar parameters
SetParams(F, nf) ==
    [oidnSetFilterImage(nf, F.handle, "output")
        EXCEPT ![F.handle].hdr = Some(F.hdr),
               ![F.handle].inputScale = Some(F.input_scale),
               ![F.handle].srgb = Some(F.srgb),
               ![F.handle].clean_aux = Some(F.clean_aux),
               ![F.handle].quality = Some(F.filter_quality)]
ParamCalls(F, output) ==
    <<SetImageCall("output", output, F.img_dims),
      <<"oidnSetFilterBool", "hdr">>, <<"oidnSetFilterFloat", "inputScale">>,
      <<"oidnSetFilterBool", "srgb">>, <<"oidnSetFilterBool", "clean_aux">>,
      <<"oidnSetFilterInt", "quality">>,
      Call("oidnCommitFilter"), Call("oidnExecuteFilter")>>

\* execute_filter_buffer: [ret, nf, calls, output].  output is the output
\* Buffer afterwards: filled by the engine when the filter was executed.
execute_filter_buffer(F, D, nf, color, output, v) ==
    LET aux == ExecAux(F, nf) IN
    IF IsSome(aux.err)
    THEN [ret |-> Err(aux.err[1]), nf |-> aux.nf, calls |-> aux.calls,
          output |-> output]
    ELSE LET col == ExecColor(F, D, color, output) IN
         IF IsSome(col.err)
         THEN [ret |-> Err(col.err[1]), nf |-> aux.nf, calls |-> aux.calls,
               output |-> output]
         ELSE LET nf2 == oidnSetFilterImage(aux.nf, F.handle, "color")
                  calls2 == Append(aux.calls,
                                   SetImageCall("color", col.color_buffer, F.img_dims))
                  oerr == ExecOutput(F, D, output)
              IN IF IsSome(oerr)
                 THEN [ret |-> Err(oerr[1]), nf |-> nf2, calls |-> calls2,
                       output |-> output]
                 ELSE [ret |-> Ok, nf |-> SetParams(F, nf2),
                       calls |-> calls2 \o ParamCalls(F, output),
                       output |-> [output EXCEPT !.buf = Denoise(col.color_buffer.buf, v)]]

\* execute_filter as it would be if the result of execute_filter_buffer were
\* kept and returned after the read-back instead of propagated with `?`.
execute_filter_ReadsAlways(F, D, nb, nf, color, output, allocOk1, allocOk2, v) ==
    LET c1 == IF IsSome(color)
              THEN create_buffer(D, nb, color[1], allocOk1)
              ELSE [buffer |-> None, nb |-> nb, calls |-> <<>>]
    IN
    IF IsSome(color) /\ c1.buffer = None
    THEN [ret |-> Err(OutOfMemory), nb |-> nb, nf |-> nf, calls |-> c1.calls,
          output |-> output]
    ELSE LET c2 == create_buffer(D, c1.nb, output, allocOk2) IN
         IF c2.buffer = None
         THEN [ret |-> Err(OutOfMemory), nb |-> drop_opt(c1.nb, c1.buffer), nf |-> nf,
               calls |-> c1.calls \o c2.calls \o drop_calls(c1.buffer),
               output |-> output]
         ELSE LET e == execute_filter_buffer(F, D, nf, c1.buffer, c2.buffer[1], v)
              IN [ret |-> e.ret,
                  nb |-> drop_opt(drop_buffer(c2.nb, e.output), c1.buffer),
                  nf |-> e.nf,
                  calls |-> c1.calls \o c2.calls \o e.calls
                            \o <<Call("oidnReadBuffer")>>
                            \o <<Call("oidnReleaseBuffer")>> \o drop_calls(c1.buffer),
                  output |-> e.output.buf]

\* execute_filter as it would be if the transient buffers were released by
\* hand after the read-back and not by Drop: an early return leaks them.
execute_filter_LeakOnError(F, D, nb, nf, color, output, allocOk1, allocOk2, v) ==
    LET c1 == IF IsSome(color)
              THEN create_buffer(D, nb, color[1], allocOk1)
              ELSE [buffer |-> None, nb |-> nb, calls |-> <<>>]
    IN
    IF IsSome(color) /\ c1.buffer = None
    THEN [ret |-> Err(OutOfMemory), nb |-> nb, nf |-> nf, calls |-> c1.calls,
          output |-> output]
    ELSE LET c2 == create_buffer(D, c1.nb, output, allocOk2) IN
         IF c2.buffer = None
         THEN [ret |-> Err(OutOfMemory), nb |-> c1.nb, nf |-> nf,
               calls |-> c1.calls \o c2.calls,
               output |-> output]
         ELSE LET e == execute_filter_buffer(F, D, nf, c1.buffer, c2.buffer[1], v)
                  isOk == e.ret = Ok
              IN [ret |-> e.ret,
                  nb |-> IF isOk THEN drop_opt(drop_buffer(c2.nb, e.output), c1.buffer)
                         ELSE c2.nb,
                  nf |-> e.nf,
                  calls |-> c1.calls \o c2.calls \o e.calls
                            \o (IF isOk THEN <<Call("oidnReadBuffer")>> ELSE <<>>)
                            \o (IF isOk
                                THEN <<Call("oidnReleaseBuffer")>> \o drop_calls(c1.buffer)
                                ELSE <<>>),
                  output |-> IF isOk THEN e.output.buf ELSE output]

\* execute_filter as it would be with create_buffer(..).unwrap() in place of
\* ok_or(Error::OutOfMemory)?.
execute_filter_Unwrap(F, D, nb, nf, color, output, allocOk1, allocOk2, v) ==
    LET c1 == IF IsSome(color)
              THEN create_buffer(D, nb, color[1], allocOk1)
              ELSE [buffer |-> None, nb |-> nb, calls |-> <<>>]
    IN
    IF IsSome(color) /\ c1.buffer = None
    THEN [ret |-> Panic, nb |-> nb, nf |-> nf, calls |-> c1.calls,
          output |-> output]
    ELSE LET c2 == create_buffer(D, c1.nb, output, allocOk2) IN
         IF c2.buffer = None
         THEN [ret |-> Panic, nb |-> drop_opt(c1.nb, c1.buffer), nf |-> nf,
               calls |-> c1.calls \o c2.calls \o drop_calls(c1.buffer),
               output |-> output]
         ELSE LET e == execute_filter_buffer(F, D, nf, c1.buffer, c2.buffer[1], v)
                  isOk == e.ret = Ok
              IN [ret |-> e.ret,
                  nb |-> drop_opt(drop_buffer(c2.nb, e.output), c1.buffer),
                  nf |-> e.nf,
                  calls |-> c1.calls \o c2.calls \o e.calls
                            \o (IF isOk THEN <<Call("oidnReadBuffer")>> ELSE <<>>)
                            \o <<Call("oidnReleaseBuffer")>> \o drop_calls(c1.buffer),
                  output |-> IF isOk THEN e.output.buf ELSE output]

\* execute_filter, lines 238-257.  color: None (in place) or Some(slice).
\* [ret, nb, nf, calls, output]: output is the caller's slice afterwards.
execute_filter(F, D, nb, nf, color, output, allocOk1, allocOk2, v) ==
    LET c1 == IF IsSome(color)
              THEN create_buffer(D, nb, color[1], allocOk1)
              ELSE [buffer |-> None, nb |-> nb, calls |-> <<>>]
    IN
    IF IsSome(color) /\ c1.buffer = None
    THEN [ret |-> Err(OutOfMemory), nb |-> nb, nf |-> nf, calls |-> c1.calls,
          output |-> output]
    ELSE LET c2 == create_buffer(D, c1.nb, output, allocOk2) IN
         IF c2.buffer = None
         THEN [ret |-> Err(OutOfMemory), nb |-> drop_opt(c1.nb, c1.buffer), nf |-> nf,
               calls |-> c1.calls \o c2.calls \o drop_calls(c1.buffer),
               output |-> output]
         ELSE LET e == execute_filter_buffer(F, D, nf, c1.buffer, c2.buffer[1], v)
                  isOk == e.ret = Ok
              IN [ret |-> e.ret,
                  nb |-> drop_opt(drop_buffer(c2.nb, e.output), c1.buffer),
                  nf |-> e.nf,
                  calls |-> c1.calls \o c2.calls \o e.calls
                            \o (IF isOk THEN <<Call("oidnReadBuffer")>> ELSE <<>>)
                            \o <<Call("oidnReleaseBuffer")>> \o drop_calls(c1.buffer),
                  output |-> IF isOk THEN e.output.buf ELSE output]

\* lines 61-75 and 100-114: create or overwrite self.albedo.
\* [F, nb, calls, panicked]
stage_albedo(F, D, nb, albedo, allocOk) ==
    IF IsSome(F.albedo) /\ F.albedo[1].size = Len(albedo)
    THEN [F |-> [F EXCEPT !.albedo = Some(write(F.albedo[1], albedo))], nb |-> nb,
          calls |-> <<Call("oidnWriteBuffer")>>, panicked |-> FALSE]
    ELSE LET c == create_buffer(D, nb, albedo, allocOk) IN
         IF c.buffer = None
         THEN [F |-> F, nb |-> nb, calls |-> c.calls, panicked |-> TRUE]
         ELSE [F |-> [F EXCEPT !.albedo = c.buffer],
               nb |-> drop_opt(c.nb, F.albedo),
               calls |-> c.calls \o drop_calls(F.albedo), panicked |-> FALSE]

\* lines 76-90: the normal slice of albedo_normal.  The new buffer is assigned
\* to self.albedo (line 84).
stage_normal(F, D, nb, normal, allocOk) ==
    IF IsSome(F.normal) /\ F.normal[1].size = Len(normal)
    THEN [F |-> [F EXCEPT !.normal = Some(write(F.normal[1], normal))], nb |-> nb,
          calls |-> <<Call("oidnWriteBuffer")>>, panicked |-> FALSE]
    ELSE LET c == create_buffer(D, nb, normal, allocOk) IN
         IF c.buffer = None
         THEN [F |-> F, nb |-> nb, calls |-> c.calls, panicked |-> TRUE]
         ELSE [F |-> [F EXCEPT !.albedo = c.buffer],
               nb |-> drop_opt(c.nb, F.albedo),
               calls |-> c.calls \o drop_calls(F.albedo), panicked |-> FALSE]

\* evict as it would be if it never dropped anything.
evict_Never(o, buffer_dims) == o
\* evict as it would be with the comparison inverted.
evict_Inverted(o, buffer_dims) ==
    IF IsSome(o) /\ o[1].size = buffer_dims THEN None ELSE o

\* image_dimensions, lines 202-217: an auxiliary buffer of another size is dropped.
evict(o, buffer_dims) ==
    IF IsSome(o) /\ o[1].size # buffer_dims THEN None ELSE o

\* ---------------------------------------------------------------- actions
\* A method is called when the caller is between calls.  After a call the
\* caller looks at what it returned and at what it did; a panic (an unwrap
\* of None) ends the run.
NoOp == Op("idle", 0, <<>>)
\* A program with one thread: it owns every value and is inside no method.
SingleThread ==
    [dev |-> [d \in DevSlots |-> 1], filt |-> [f \in FiltSlots |-> 1],
     in |-> [t \in Threads |-> None]]
Idle == op = NoOp
Running == ret # Panic
FilterOf(f) == filt[f][1]
DeviceOf(f) == dev[FilterOf(f).device][1]
LiveFilters == {f \in FiltSlots : IsSome(filt[f])}
LiveDevices == {d \in DevSlots : IsSome(dev[d])}

\* The call has returned and the caller goes on.
Return ==
    /\ ~Idle
    /\ Running
    /\ op' = NoOp
    /\ ret' = Ok
    /\ calls' = <<>>
    /\ out' = <<>>
    /\ UNCHANGED <<dev, ndev, nbuf, pool, filt, nfilt, thread>>

\* Device::create_buffer called by the user, who keeps the Buffer.
CreateBuffer(d, contents, allocOk) ==
    /\ Idle
    /\ d \in LiveDevices
    /\ nbuf.live < MaxUserBufs
    /\ LET c == create_buffer(dev[d][1], nbuf, contents, allocOk) IN
       /\ nbuf' = c.nb
       /\ pool' = IF IsSome(c.buffer) THEN PoolAdd(pool, c.buffer[1]) ELSE pool
       /\ ret' = IF IsSome(c.buffer) THEN RetSome ELSE RetNone
       /\ calls' = c.calls
    /\ op' = Op("create_buffer", d, <<>>)
    /\ out' = <<>>
    /\ UNCHANGED <<dev, ndev, filt, nfilt, thread>>

\* The user drops a Buffer.
DropBuffer(b) ==
    /\ Idle
    /\ InPool(b)
    /\ pool' = PoolDel(pool, b)
    /\ nbuf' = drop_buffer(nbuf, b)
    /\ op' = Op("drop_buffer", 0, <<b>>)
    /\ ret' = Ok
    /\ calls' = <<Call("oidnReleaseBuffer")>>
    /\ out' = <<>>
    /\ UNCHANGED <<dev, ndev, filt, nfilt, thread>>

\* RayTracing::image_dimensions
\* overflow_checks: whether the build panics on arithmetic overflow.
ImageDimensions(f, width, height) ==
    /\ Idle
    /\ f \in LiveFilters
    /\ \E overflow_checks \in BOOLEAN :
         IF overflow_checks /\ DimsOverflow(width, height)
         THEN /\ ret' = Panic
              /\ calls' = <<>>
              /\ UNCHANGED <<filt, nbuf>>
         ELSE LET F == FilterOf(f)
                  buffer_dims == Dims(width, height)
                  albedo == evict(F.albedo, buffer_dims)
                  normal == evict(F.normal, buffer_dims)
                  nb1 == IF albedo = F.albedo THEN nbuf ELSE drop_opt(nbuf, F.albedo)
                  nb2 == IF normal = F.normal THEN nb1 ELSE drop_opt(nb1, F.normal)
              IN /\ filt' = [filt EXCEPT ![f] = Some([F EXCEPT
                                !.albedo = albedo, !.normal = normal,
                                !.img_dims = <<width, height, buffer_dims>>])]
                 /\ nbuf' = nb2
                 /\ calls' = (IF albedo = F.albedo THEN <<>> ELSE drop_calls(F.albedo))
                             \o (IF normal = F.normal THEN <<>>
                                 ELSE drop_calls(F.normal))
                 /\ ret' = RetSelf
    /\ op' = Op("image_dimensions", f, <<width, height>>)
    /\ out' = <<>>
    /\ UNCHANGED <<dev, ndev, pool, nfilt, thread>>

\* RayTracing::albedo
Albedo(f, albedo, allocOk) ==
    /\ Idle
    /\ f \in LiveFilters
    /\ LET r == stage_albedo(FilterOf(f), DeviceOf(f), nbuf, albedo, allocOk) IN
       /\ filt' = [filt EXCEPT ![f] = Some(r.F)]
       /\ nbuf' = r.nb
       /\ calls' = r.calls
       /\ ret' = IF r.panicked THEN Panic ELSE RetSelf
    /\ op' = Op("albedo", f, <<albedo>>)
    /\ out' = <<>>
    /\ UNCHANGED <<dev, ndev, pool, nfilt, thread>>

\* RayTracing::albedo_normal
AlbedoNormal(f, albedo, normal, allocOk1, allocOk2) ==
    /\ Idle
    /\ f \in LiveFilters
    /\ LET r1 == stage_albedo(FilterOf(f), DeviceOf(f), nbuf, albedo, allocOk1)
           r2 == stage_normal(r1.F, DeviceOf(f), r1.nb, normal, allocOk2)
           r == IF r1.panicked THEN r1
                ELSE [r2 EXCEPT !.calls = r1.calls \o r2.calls]
       IN /\ filt' = [filt EXCEPT ![f] = Some(r.F)]
          /\ nbuf' = r.nb
          /\ calls' = r.calls
          /\ ret' = IF r.panicked THEN Panic ELSE RetSelf
    /\ op' = Op("albedo_normal", f, <<albedo, normal>>)
    /\ out' = <<>>
    /\ UNCHANGED <<dev, ndev, pool, nfilt, thread>>

\* RayTracing::albedo_buffer: the Buffer is moved into the call.
AlbedoBuffer(f, albedo) ==
    /\ Idle
    /\ f \in LiveFilters
    /\ InPool(albedo)
    /\ pool' = PoolDel(pool, albedo)
    /\ LET F == FilterOf(f) IN
       IF albedo.id # DeviceOf(f).handle
       THEN /\ ret' = RetNone
            /\ filt' = filt
            /\ nbuf' = drop_buffer(nbuf, albedo)
            /\ calls' = <<Call("oidnReleaseBuffer")>>
       ELSE /\ ret' = RetSome
            /\ filt' = [filt EXCEPT ![f] = Some([F EXCEPT !.albedo = Some(albedo)])]
            /\ nbuf' = drop_opt(nbuf, F.albedo)
            /\ calls' = drop_calls(F.albedo)
    /\ op' = Op("albedo_buffer", f, <<albedo>>)
    /\ out' = <<>>
    /\ UNCHANGED <<dev, ndev, nfilt, thread>>

\* AlbedoNormalBuffer as it would be if only the albedo Buffer were checked.
AlbedoNormalBuffer_AlbedoChecked(f, albedo, normal) ==
    /\ Idle
    /\ f \in LiveFilters
    /\ TwoInPool(albedo, normal)
    /\ pool' = PoolDel(PoolDel(pool, albedo), normal)
    /\ LET F == FilterOf(f) IN
       IF albedo.id # DeviceOf(f).handle
       THEN /\ ret' = RetNone
            /\ filt' = filt
            /\ nbuf' = drop_buffer(drop_buffer(nbuf, normal), albedo)
            /\ calls' = <<Call("oidnReleaseBuffer"), Call("oidnReleaseBuffer")>>
       ELSE /\ ret' = RetSome
            /\ filt' = [filt EXCEPT ![f] = Some([F EXCEPT !.albedo = Some(albedo),
                                                            !.normal = Some(normal)])]
            /\ nbuf' = drop_opt(drop_opt(nbuf, F.albedo), F.normal)
            /\ calls' = drop_calls(F.albedo) \o drop_calls(F.normal)
    /\ op' = Op("albedo_normal_buffer", f, <<albedo, normal>>)
    /\ out' = <<>>
    /\ UNCHANGED <<dev, ndev, nfilt, thread>>

\* RayTracing::albedo_normal_buffer: both Buffers are moved into the call.
AlbedoNormalBuffer(f, albedo, normal) ==
    /\ Idle
    /\ f \in LiveFilters
    /\ TwoInPool(albedo, normal)
    /\ pool' = PoolDel(PoolDel(pool, albedo), normal)
    /\ LET F == FilterOf(f) IN
       IF albedo.id # DeviceOf(f).handle \/ normal.id # DeviceOf(f).handle
       THEN /\ ret' = RetNone
            /\ filt' = filt
            /\ nbuf' = drop_buffer(drop_buffer(nbuf, normal), albedo)
            /\ calls' = <<Call("oidnReleaseBuffer"), Call("oidnReleaseBuffer")>>
       ELSE /\ ret' = RetSome
            /\ filt' = [filt EXCEPT ![f] = Some([F EXCEPT !.albedo = Some(albedo),
                                                            !.normal = Some(normal)])]
            /\ nbuf' = drop_opt(drop_opt(nbuf, F.albedo), F.normal)
            /\ calls' = drop_calls(F.albedo) \o drop_calls(F.normal)
    /\ op' = Op("albedo_normal_buffer", f, <<albedo, normal>>)
    /\ out' = <<>>
    /\ UNCHANGED <<dev, ndev, nfilt, thread>>

\* The four execution variants.  v, e: what the engine does when it is
\* executed, the values it writes and the error it finds (NoError: none).
\* RayTracing::filter
Filter(f, color, output, allocOk1, allocOk2, v, e) ==
    /\ Idle
    /\ f \in LiveFilters
    /\ LET r == execute_filter(FilterOf(f), DeviceOf(f), nbuf, nfilt, Some(color),
                               output, allocOk1, allocOk2, v)
       IN /\ ret' = r.ret
          /\ ndev' = IF r.ret = Ok THEN RecordError(ndev, DeviceOf(f).handle, e)
                     ELSE ndev
          /\ nfilt' = r.nf
          /\ nbuf' = r.nb
          /\ calls' = r.calls
          /\ out' = r.output
    /\ op' = Op("filter", f, <<color, output>>)
    /\ UNCHANGED <<dev, pool, filt, thread>>

\* RayTracing::filter_in_place
FilterInPlace(f, color, allocOk, v, e) ==
    /\ Idle
    /\ f \in LiveFilters
    /\ LET r == execute_filter(FilterOf(f), DeviceOf(f), nbuf, nfilt, None,
                               color, TRUE, allocOk, v)
       IN /\ ret' = r.ret
          /\ ndev' = IF r.ret = Ok THEN RecordError(ndev, DeviceOf(f).handle, e)
                     ELSE ndev
          /\ nfilt' = r.nf
          /\ nbuf' = r.nb
          /\ calls' = r.calls
          /\ out' = r.output
    /\ op' = Op("filter_in_place", f, <<color>>)
    /\ UNCHANGED <<dev, pool, filt, thread>>

\* RayTracing::filter_buffer: two Buffers of the caller, borrowed.
FilterBuffer(f, color, output, v, e) ==
    /\ Idle
    /\ f \in LiveFilters
    /\ TwoInPool(color, output)
    /\ LET r == execute_filter_buffer(FilterOf(f), DeviceOf(f), nfilt,
                                      Some(color), output, v)
       IN /\ ret' = r.ret
          /\ ndev' = IF r.ret = Ok THEN RecordError(ndev, DeviceOf(f).handle, e)
                     ELSE ndev
          /\ nfilt' = r.nf
          /\ calls' = r.calls
          /\ pool' = PoolAdd(PoolDel(pool, output), r.output)
    /\ op' = Op("filter_buffer", f, <<color, output>>)
    /\ out' = <<>>
    /\ UNCHANGED <<dev, nbuf, filt, thread>>

\* RayTracing::filter_in_place_buffer
FilterInPlaceBuffer(f, color, v, e) ==
    /\ Idle
    /\ f \in LiveFilters
    /\ InPool(color)
    /\ LET r == execute_filter_buffer(FilterOf(f), DeviceOf(f), nfilt, None, color, v)
       IN /\ ret' = r.ret
          /\ ndev' = IF r.ret = Ok THEN RecordError(ndev, DeviceOf(f).handle, e)
                     ELSE ndev
          /\ nfilt' = r.nf
          /\ calls' = r.calls
          /\ pool' = PoolAdd(PoolDel(pool, color), r.output)
    /\ op' = Op("filter_in_place_buffer", f, <<color>>)
    /\ out' = <<>>
    /\ UNCHANGED <<dev, nbuf, filt, thread>>

\* unsafe { device.create_buffer_from_raw(sys::oidnNewBuffer(device.raw(), bytes)) }
\* The native buffer holds whatever it was allocated with.
CreateBufferFromRaw(d, bytes) ==
    /\ Idle
    /\ d \in LiveDevices
    /\ nbuf.live < MaxUserBufs
    /\ LET raw == [bytes |-> bytes, data |-> DataOf(bytes \div SizeOfF32, "raw")] IN
       pool' = PoolAdd(pool, create_buffer_from_raw(dev[d][1], raw))
    /\ nbuf' = oidnNewBuffer(nbuf)
    /\ op' = Op("create_buffer_from_raw", d, <<bytes>>)
    /\ ret' = Ok
    /\ calls' = <<Call("oidnNewBuffer"), Call("oidnGetBufferSize")>>
    /\ out' = <<>>
    /\ UNCHANGED <<dev, ndev, filt, nfilt, thread>>

\* buffer.write(contents)
BufferWrite(b, contents) ==
    /\ Idle
    /\ InPool(b)
    /\ LET r == Buffer_write(b, contents) IN
       /\ pool' = PoolAdd(PoolDel(pool, b), r.b)
       /\ ret' = r.ret
       /\ calls' = r.calls
    /\ op' = Op("write", 0, <<b, contents>>)
    /\ out' = <<>>
    /\ UNCHANGED <<dev, ndev, nbuf, filt, nfilt, thread>>

\* buffer.read_to_slice(contents): out is the caller's slice afterwards.
BufferReadToSlice(b, contents) ==
    /\ Idle
    /\ InPool(b)
    /\ LET r == Buffer_read_to_slice(b, contents) IN
       /\ ret' = r.ret
       /\ calls' = r.calls
       /\ out' = r.contents
    /\ op' = Op("read_to_slice", 0, <<b, contents>>)
    /\ UNCHANGED <<dev, ndev, nbuf, pool, filt, nfilt, thread>>

\* buffer.read(): out is the vector returned.
BufferRead(b) ==
    /\ Idle
    /\ InPool(b)
    /\ out' = Buffer_read(b)
    /\ ret' = Ok
    /\ calls' = <<Call("oidnReadBuffer")>>
    /\ op' = Op("read", 0, <<b>>)
    /\ UNCHANGED <<dev, ndev, nbuf, pool, filt, nfilt, thread>>

\* Quality, lib.rs: the variants and Quality::as_raw_oidn_quality.
Qualities == {"Default", "Balanced", "High"}
as_raw_oidn_quality(q) ==
    CASE q = "Default" -> "OIDN_QUALITY_DEFAULT"
      [] q = "Balanced" -> "OIDN_QUALITY_BALANCED"
      [] q = "High" -> "OIDN_QUALITY_HIGH"
\* The scales the caller sets (a new filter has NaN).
InputScales == {"2.0"}

\* A setter of one field of the filter; all return self.
SetField(f, name, F) ==
    /\ Idle
    /\ f \in LiveFilters
    /\ filt' = [filt EXCEPT ![f] = Some(F)]
    /\ op' = Op(name, f, <<>>)
    /\ ret' = RetSelf
    /\ calls' = <<>>
    /\ out' = <<>>
    /\ UNCHANGED <<dev, ndev, nbuf, pool, nfilt, thread>>

\* RayTracing::filter_quality
FilterQuality(f, quality) ==
    SetField(f, "filter_quality",
             [FilterOf(f) EXCEPT !.filter_quality = as_raw_oidn_quality(quality)])
\* RayTracing::hdr
Hdr(f, hdr) == SetField(f, "hdr", [FilterOf(f) EXCEPT !.hdr = hdr])
\* RayTracing::hdr_scale (deprecated)
HdrScale(f, hdr_scale) ==
    SetField(f, "hdr_scale", [FilterOf(f) EXCEPT !.input_scale = hdr_scale])
\* RayTracing::input_scale
InputScale(f, input_scale) ==
    SetField(f, "input_scale", [FilterOf(f) EXCEPT !.input_scale = input_scale])
\* RayTracing::srgb
Srgb(f, srgb) == SetField(f, "srgb", [FilterOf(f) EXCEPT !.srgb = srgb])
\* RayTracing::clean_aux
CleanAux(f, clean_aux) ==
    SetField(f, "clean_aux", [FilterOf(f) EXCEPT !.clean_aux = clean_aux])

\* Error::try_from(code), derived for enum Error (lib.rs): the variant a
\* native code names, None for a code the enum does not have.
Error_try_from(code) ==
    CASE code = "OIDN_ERROR_NONE" -> Some("None")
      [] code = "OIDN_ERROR_UNKNOWN" -> Some("Unknown")
      [] code = "OIDN_ERROR_INVALID_ARGUMENT" -> Some(InvalidArgument)
      [] code = "OIDN_ERROR_INVALID_OPERATION" -> Some("InvalidOperation")
      [] code = "OIDN_ERROR_OUT_OF_MEMORY" -> Some(OutOfMemory)
      [] code = "OIDN_ERROR_UNSUPPORTED_HARDWARE" -> Some("UnsupportedFormat")
      [] code = "OIDN_ERROR_CANCELLED" -> Some("Canceled")
      [] OTHER -> None

\* get_error as it would be if it always returned Ok(()).
get_error_AlwaysOk(nd, D) ==
    [ret |-> Ok, msg |-> <<>>, nd |-> oidnGetDeviceError(nd, D.handle).nd]

\* Device::get_error: [ret, msg, nd].  Ok(()) is ret = Ok; Err((kind, msg)) is
\* ret = kind with the message in msg.
get_error(nd, D) ==
    LET g == oidnGetDeviceError(nd, D.handle) IN
    IF g.err = NoError.code
    THEN [ret |-> Ok, msg |-> <<>>, nd |-> g.nd]
    ELSE [ret |-> IF IsSome(Error_try_from(g.err))
                  THEN Err(Error_try_from(g.err)[1]) ELSE Panic,
          msg |-> <<g.err_msg>>, nd |-> g.nd]

\* device.get_error(): out is the message of an Err.
GetError(d) ==
    /\ Idle
    /\ d \in LiveDevices
    /\ LET r == get_error(ndev, dev[d][1]) IN
       /\ ret' = r.ret
       /\ out' = r.msg
       /\ ndev' = r.nd
    /\ op' = Op("get_error", d, <<>>)
    /\ calls' = <<Call("oidnGetDeviceError")>>
    /\ UNCHANGED <<dev, nbuf, pool, filt, nfilt, thread>>

\* --------------------------------------------------------------- lifetimes
\* Device::new as it would be without its oidnCommitDevice.
Device_new_NoCommit(nd, h) == oidnNewDevice(nd, h)
\* Device::new (cpu and default alike): a new native device, committed.
\* h: the handle oidnNewDevice returns; it is not tested for null.
Device_new(nd, h) == oidnCommitDevice(oidnNewDevice(nd, h), h)
\* Device::cuda as it would be without the is_null test.
Device_cuda_NoNullCheck(nd, h) ==
    [handle |-> Some(h), nd |-> oidnCommitDevice(oidnNewDevice(nd, h), h),
     calls |-> <<<<"oidnNewDevice", h>>, <<"oidnCommitDevice", h>>>>]
\* Device::cuda (sycl, hip and metal are the same text with another device
\* type): [handle |-> None | Some(h), nd, calls].
Device_cuda(nd, h) ==
    IF h = NullHandle
    THEN [handle |-> None, nd |-> oidnNewDevice(nd, h),
          calls |-> <<<<"oidnNewDevice", h>>>>]
    ELSE [handle |-> Some(h), nd |-> oidnCommitDevice(oidnNewDevice(nd, h), h),
          calls |-> <<<<"oidnNewDevice", h>>, <<"oidnCommitDevice", h>>>>]
\* Drop for Device
Device_drop(nd, D) == oidnReleaseDevice(nd, D.handle)
\* RayTracing::new: the device is retained, then the filter created.
\* fh: the handle oidnNewFilter returns.  [nd, nf, F]
RayTracing_new(nd, nf, fh, d, D) ==
    [nd |-> oidnRetainDevice(nd, D.handle),
     nf |-> oidnNewFilter(nf, fh),
     F |-> NewRayTracing(fh, d)]
\* Drop for RayTracing as it would be without its oidnReleaseDevice.
RayTracing_drop_NoRelease(nd, nf, F, D) ==
    [nd |-> nd, nf |-> oidnReleaseFilter(nf, F.handle)]
\* Drop for RayTracing: [nd, nf]
RayTracing_drop(nd, nf, F, D) ==
    [nd |-> oidnReleaseDevice(nd, D.handle),
     nf |-> oidnReleaseFilter(nf, F.handle)]

\* Handles the native library has not handed out yet.
FreshDevHandles == {h \in DevHandles : ndev[h].rc = 0 /\ ndev[h].freed = 0}
FreshFiltHandles == {h \in FiltHandles : nfilt[h].rc = 0}
\* The filters that borrow the Device in slot d.
Borrowers(d) == {f \in LiveFilters : FilterOf(f).device = d}

\* The Buffers a filter has staged.
StagedBuffers(F) ==
    (IF IsSome(F.albedo) THEN {F.albedo[1]} ELSE {})
    \cup (IF IsSome(F.normal) THEN {F.normal[1]} ELSE {})
\* The Arc at address a as it would be if a Buffer kept the address of the
\* Device's Arc and no clone of it.
ArcHeld_ByDeviceOnly(a) == \E d \in LiveDevices : dev[d][1].arc = a
\* Whether the Arc<u8> allocated at address a is alive: the Device that made
\* it (Arc::new(0)) or a Buffer that holds a clone of it (self.1.clone()) exists.
ArcHeld(a) ==
    \/ \E d \in LiveDevices : dev[d][1].arc = a
    \/ \E b \in BagToSet(pool) : b.device_arc = a
    \/ \E f \in LiveFilters : \E b \in StagedBuffers(FilterOf(f)) : b.device_arc = a
\* The addresses Arc::new can return: the ones no live Arc occupies.
FreeArcs == {a \in ArcAddrs : ~ArcHeld(a)}

\* The factories that return Self and the ones that return Option<Self>.
HostKinds == {"new", "cpu", "default"}
AccelKinds == {"cuda", "sycl", "hip", "metal"}

\* let d = Device::new();  (Device::cpu(), Device::default())
\* h: the handle oidnNewDevice returns, a: the address of the new Arc.
DeviceNew(d, kind, h, a) ==
    /\ Idle
    /\ dev[d] = None
    /\ kind \in HostKinds
    /\ h = NullHandle \/ h \in FreshDevHandles
    /\ a \in FreeArcs
    /\ ndev' = Device_new(ndev, h)
    /\ dev' = [dev EXCEPT ![d] = Some([handle |-> h, arc |-> a])]
    /\ op' = Op(kind, d, <<>>)
    /\ ret' = Ok
    /\ calls' = <<<<"oidnNewDevice", h>>, <<"oidnCommitDevice", h>>>>
    /\ out' = <<>>
    /\ UNCHANGED <<nbuf, pool, filt, nfilt, thread>>

\* let d = Device::cuda();  (sycl, hip, metal)
DeviceAccel(d, kind, h, a) ==
    /\ Idle
    /\ dev[d] = None
    /\ kind \in AccelKinds
    /\ h = NullHandle \/ h \in FreshDevHandles
    /\ a \in FreeArcs
    /\ LET r == Device_cuda(ndev, h) IN
       /\ ndev' = r.nd
       /\ dev' = IF IsSome(r.handle)
                 THEN [dev EXCEPT ![d] = Some([handle |-> r.handle[1], arc |-> a])]
                 ELSE dev
       /\ ret' = IF IsSome(r.handle) THEN RetSome ELSE RetNone
       /\ calls' = r.calls
    /\ op' = Op(kind, d, <<>>)
    /\ out' = <<>>
    /\ UNCHANGED <<nbuf, pool, filt, nfilt, thread>>

\* drop(d): the borrow checker allows it once no filter borrows the Device.
DeviceDrop(d) ==
    /\ Idle
    /\ d \in LiveDevices
    /\ Borrowers(d) = {}
    /\ ndev' = Device_drop(ndev, dev[d][1])
    /\ dev' = [dev EXCEPT ![d] = None]
    /\ op' = Op("drop_device", d, <<>>)
    /\ ret' = Ok
    /\ calls' = <<<<"oidnReleaseDevice", dev[d][1].handle>>>>
    /\ out' = <<>>
    /\ UNCHANGED <<nbuf, pool, filt, nfilt, thread>>

\* let f = RayTracing::new(&d);
RayTracingNew(f, d, fh) ==
    /\ Idle
    /\ filt[f] = None
    /\ d \in LiveDevices
    /\ fh \in FreshFiltHandles
    /\ LET r == RayTracing_new(ndev, nfilt, fh, d, dev[d][1]) IN
       /\ ndev' = r.nd
       /\ nfilt' = r.nf
       /\ filt' = [filt EXCEPT ![f] = Some(r.F)]
    /\ op' = Op("RayTracing::new", f, <<>>)
    /\ ret' = Ok
    /\ calls' = <<<<"oidnRetainDevice", dev[d][1].handle>>, <<"oidnNewFilter", fh>>>>
    /\ out' = <<>>
    /\ UNCHANGED <<dev, nbuf, pool, thread>>

\* drop(f): Drop for RayTracing, then its fields (the staged buffers).
RayTracingDrop(f) ==
    /\ Idle
    /\ f \in LiveFilters
    /\ LET F == FilterOf(f)
           r == RayTracing_drop(ndev, nfilt, F, DeviceOf(f))
       IN /\ ndev' = r.nd
          /\ nfilt' = r.nf
          /\ nbuf' = drop_opt(drop_opt(nbuf, F.albedo), F.normal)
          /\ calls' = <<<<"oidnReleaseFilter", F.handle>>,
                        <<"oidnReleaseDevice", DeviceOf(f).handle>>>>
                      \o drop_calls(F.albedo) \o drop_calls(F.normal)
    /\ filt' = [filt EXCEPT ![f] = None]
    /\ op' = Op("drop_filter", f, <<>>)
    /\ ret' = Ok
    /\ out' = <<>>
    /\ UNCHANGED <<dev, pool, thread>>

\* ------------------------------------------------- execution specification
\* The state after
\*     let a = Device::new(); let b = Device::new();
\*     let mut filter = RayTracing::new(&a);
InitExec ==
    /\ dev = [d \in DevSlots |->
                IF d <= 2 THEN Some([handle |-> d, arc |-> d]) ELSE None]
    /\ ndev = [h \in DevHandles |->
                IF h = 1 THEN [NoNativeDevice EXCEPT !.rc = 2, !.committed = TRUE,
                                                     !.commits = 1]
                ELSE IF h = 2 THEN [NoNativeDevice EXCEPT !.rc = 1, !.committed = TRUE,
                                                          !.commits = 1]
                ELSE NoNativeDevice]
    /\ nbuf = [live |-> 0]
    /\ pool = EmptyBag
    /\ filt = [f \in FiltSlots |-> IF f = 1 THEN Some(NewRayTracing(1, 1)) ELSE None]
    /\ nfilt = [h \in FiltHandles |->
                 IF h = 1 THEN [NoNativeFilter EXCEPT !.rc = 1] ELSE NoNativeFilter]
    /\ op = NoOp
    /\ ret = Ok
    /\ calls = <<>>
    /\ out = <<>>
    /\ thread = SingleThread

\* The contents the caller creates Buffers with.
BufferContents == SlicesOf("image")

\* The execution variants on one filter, staging through Buffers.  What the
\* engine writes is left to the specification: for the caller's slices a value
\* of its own, for the caller's Buffers the value they were created with.

NextExec ==
    \/ Return
    \/ \E d \in DevSlots, s \in BufferContents, allocOk \in BOOLEAN :
          CreateBuffer(d, s, allocOk)
    \/ \E b \in BagToSet(pool) : DropBuffer(b)
    \/ \E f \in FiltSlots, wh \in DimPairs : ImageDimensions(f, wh[1], wh[2])
    \/ \E f \in FiltSlots, b \in BagToSet(pool) : AlbedoBuffer(f, b)
    \/ \E f \in FiltSlots, a \in BagToSet(pool), n \in BagToSet(pool) :
          AlbedoNormalBuffer(f, a, n)
    \/ \E f \in FiltSlots, c \in SlicesOf("color"), o \in SlicesOf("output"),
          ok \in TwoAllocs :
          Filter(f, c, o, ok[1], ok[2], "denoised", NoError)
    \/ \E f \in FiltSlots, c \in SlicesOf("color"), allocOk \in BOOLEAN :
          FilterInPlace(f, c, allocOk, "denoised", NoError)
    \/ \E f \in FiltSlots, c \in BagToSet(pool), o \in BagToSet(pool) :
          FilterBuffer(f, c, o, "image", NoError)
    \/ \E f \in FiltSlots, c \in BagToSet(pool) : FilterInPlaceBuffer(f, c, "image", NoError)

SpecExec == InitExec /\ [][NextExec]_vars

\* The slice API on one filter.
NextSlice ==
    \/ Return
    \/ \E f \in FiltSlots, wh \in DimPairs : ImageDimensions(f, wh[1], wh[2])
    \/ \E f \in FiltSlots, s \in SlicesOf("albedo"), allocOk \in BOOLEAN :
          Albedo(f, s, allocOk)
    \/ \E f \in FiltSlots, a \in SlicesOf("albedo"), n \in SlicesOf("normal"),
          ok \in TwoAllocs :
          AlbedoNormal(f, a, n, ok[1], ok[2])
    \/ \E f \in FiltSlots, c \in SlicesOf("color"), o \in SlicesOf("output"),
          ok \in TwoAllocs :
          Filter(f, c, o, ok[1], ok[2], "denoised", NoError)
    \/ \E f \in FiltSlots, c \in SlicesOf("color"), allocOk \in BOOLEAN :
          FilterInPlace(f, c, allocOk, "denoised", NoError)

SpecSlice == InitExec /\ [][NextSlice]_vars

\* The Buffer API on one filter.
NextBuf ==
    \/ Return
    \/ \E d \in DevSlots, s \in BufferContents, allocOk \in BOOLEAN :
          CreateBuffer(d, s, allocOk)
    \/ \E b \in BagToSet(pool) : DropBuffer(b)
    \/ \E f \in FiltSlots, wh \in DimPairs : ImageDimensions(f, wh[1], wh[2])
    \/ \E f \in FiltSlots, b \in BagToSet(pool) : AlbedoBuffer(f, b)
    \/ \E f \in FiltSlots, a \in BagToSet(pool), n \in BagToSet(pool) :
          AlbedoNormalBuffer(f, a, n)
    \/ \E f \in FiltSlots, c \in BagToSet(pool), o \in BagToSet(pool) :
          FilterBuffer(f, c, o, "image", NoError)
    \/ \E f \in FiltSlots, c \in BagToSet(pool) : FilterInPlaceBuffer(f, c, "image", NoError)

SpecBuf == InitExec /\ [][NextBuf]_vars

\* Staging and image_dimensions on one filter, through slices and Buffers.
NextStage ==
    \/ Return
    \/ \E d \in DevSlots, s \in BufferContents, allocOk \in BOOLEAN :
          CreateBuffer(d, s, allocOk)
    \/ \E b \in BagToSet(pool) : DropBuffer(b)
    \/ \E f \in FiltSlots, wh \in DimPairs : ImageDimensions(f, wh[1], wh[2])
    \/ \E f \in FiltSlots, s \in SlicesOf("albedo"), allocOk \in BOOLEAN :
          Albedo(f, s, allocOk)
    \/ \E f \in FiltSlots, a \in SlicesOf("albedo"), n \in SlicesOf("normal"),
          ok \in TwoAllocs :
          AlbedoNormal(f, a, n, ok[1], ok[2])
    \/ \E f \in FiltSlots, b \in BagToSet(pool) : AlbedoBuffer(f, b)
    \/ \E f \in FiltSlots, a \in BagToSet(pool), n \in BagToSet(pool) :
          AlbedoNormalBuffer(f, a, n)

SpecStage == InitExec /\ [][NextStage]_vars

\* ------------------------------------------------- lifetime specification
\* The program before it has created anything.
InitLife ==
    /\ dev = [d \in DevSlots |-> None]
    /\ ndev = [h \in DevHandles |-> NoNativeDevice]
    /\ nbuf = [live |-> 0]
    /\ pool = EmptyBag
    /\ filt = [f \in FiltSlots |-> None]
    /\ nfilt = [h \in FiltHandles |-> NoNativeFilter]
    /\ op = NoOp
    /\ ret = Ok
    /\ calls = <<>>
    /\ out = <<>>
    /\ thread = SingleThread

NextLife ==
    \/ Return
    \/ \E d \in DevSlots, h \in DevHandles : DeviceNew(d, "new", h, h)
    \/ \E d \in DevSlots : DeviceDrop(d)
    \/ \E f \in FiltSlots, d \in DevSlots, fh \in FiltHandles : RayTracingNew(f, d, fh)
    \/ \E f \in FiltSlots : RayTracingDrop(f)

SpecLife == InitLife /\ [][NextLife]_vars

\* ---------------------------------------------------- device specification
\* Devices made by every factory, with native device creation succeeding or
\* returning null, used and dropped.  A Device whose handle is null is only
\* dropped here.
UsableDevices == {d \in LiveDevices : dev[d][1].handle # NullHandle}
NextDev ==
    \/ Return
    \/ \E d \in DevSlots, kind \in HostKinds, h \in DevHandles \cup {NullHandle},
          a \in ArcAddrs : DeviceNew(d, kind, h, a)
    \/ \E d \in DevSlots, kind \in AccelKinds, h \in DevHandles \cup {NullHandle},
          a \in ArcAddrs : DeviceAccel(d, kind, h, a)
    \/ \E d \in DevSlots : DeviceDrop(d)
    \/ \E d \in UsableDevices : GetError(d)
    \/ \E d \in UsableDevices, fh \in FiltHandles : RayTracingNew(1, d, fh)
    \/ RayTracingDrop(1)

SpecDev == InitLife /\ [][NextDev]_vars

\* ------------------------------------------------------ token specification
\* Devices created and dropped while Buffers made from them live on: the
\* allocator is free to give a new Device's Arc any address no live Arc has.
\* The caller fills each Buffer with the number of the native device of the
\* Device it creates the Buffer with; a native device handle is handed out
\* once here, so the contents tell which Device wrapper made the Buffer.
MarkOf(D) == DataOf(Channels, D.handle)
NextArc ==
    \/ Return
    \/ \E d \in DevSlots, h \in DevHandles, a \in ArcAddrs : DeviceNew(d, "new", h, a)
    \/ \E d \in DevSlots : DeviceDrop(d)
    \/ \E d \in LiveDevices, allocOk \in BOOLEAN :
          /\ BagCardinality(pool) < MaxHeld
          /\ CreateBuffer(d, MarkOf(dev[d][1]), allocOk)
    \/ \E b \in BagToSet(pool) : DropBuffer(b)

SpecArc == InitLife /\ [][NextArc]_vars

\* --------------------------------------------------- Buffer specification
\* The caller's Buffers: made from slices or imported, written, read and
\* dropped, while the Devices that made them are dropped at any time (no
\* lifetime ties a Buffer to its Device).
NextBufOps ==
    \/ Return
    \/ /\ BagCardinality(pool) < MaxHeld
       /\ \E d \in DevSlots, s \in Slices, allocOk \in BOOLEAN :
             CreateBuffer(d, s, allocOk)
    \/ /\ BagCardinality(pool) < MaxHeld
       /\ \E d \in DevSlots, bytes \in RawByteSizes : CreateBufferFromRaw(d, bytes)
    \/ \E b \in BagToSet(pool) : DropBuffer(b)
    \/ \E b \in BagToSet(pool), s \in Slices : BufferWrite(b, s)
    \/ \E b \in BagToSet(pool), s \in Slices : BufferReadToSlice(b, s)
    \/ \E b \in BagToSet(pool) : BufferRead(b)
    \/ \E d \in DevSlots : DeviceDrop(d)

SpecBufOps == InitExec /\ [][NextBufOps]_vars

\* ------------------------------------------------ ownership specification
\* The Buffers the caller and a filter own through the typed surface: the
\* caller's Buffers, staging through slices and Buffers, eviction, and the
\* drop of the filter with what it has staged.
NextOwn ==
    \/ Return
    \/ \E d \in DevSlots, s \in BufferContents, allocOk \in BOOLEAN :
          CreateBuffer(d, s, allocOk)
    \/ \E b \in BagToSet(pool) : DropBuffer(b)
    \/ \E f \in FiltSlots, wh \in DimPairs : ImageDimensions(f, wh[1], wh[2])
    \/ \E f \in FiltSlots, s \in SlicesOf("albedo"), allocOk \in BOOLEAN :
          Albedo(f, s, allocOk)
    \/ \E f \in FiltSlots, a \in SlicesOf("albedo"), n \in SlicesOf("normal"),
          ok \in TwoAllocs :
          AlbedoNormal(f, a, n, ok[1], ok[2])
    \/ \E f \in FiltSlots, b \in BagToSet(pool) : AlbedoBuffer(f, b)
    \/ \E f \in FiltSlots, a \in BagToSet(pool), n \in BagToSet(pool) :
          AlbedoNormalBuffer(f, a, n)
    \/ \E f \in FiltSlots : RayTracingDrop(f)

SpecOwn == InitExec /\ [][NextOwn]_vars

\* ----------------------------------------------------------------- threads
\* What the compiler lets safe code do with a Device and a RayTracing across
\* threads.  Device is Send (device.rs:116) and not Sync (it holds a raw
\* pointer), so a Device can be moved to another thread while nothing borrows
\* it, and a &Device cannot be given to another thread.  RayTracing<'a> is
\* Send (filter.rs:384) whatever it holds, so a filter can be moved into a
\* scoped thread together with the &'a Device inside it.
Inside(t) == IsSome(thread.in[t])
\* Methods that reach the native device: on a Device, on a filter.
DeviceMethods == {"get_error", "create_buffer"}
FilterMethods == {"albedo", "filter_in_place"}

\* The owner moves Device d to thread t (unsafe impl Send for Device).
SendDevice(d, t) ==
    /\ Idle
    /\ d \in LiveDevices
    /\ Borrowers(d) = {}
    /\ thread.dev[d] # t
    /\ ~Inside(thread.dev[d])
    /\ thread' = [thread EXCEPT !.dev[d] = t]
    /\ UNCHANGED <<dev, ndev, nbuf, pool, filt, nfilt, op, ret, calls, out>>

\* The owner moves filter f to thread t (unsafe impl Send for RayTracing);
\* the Device it borrows stays where it is.
SendRayTracing(f, t) ==
    /\ Idle
    /\ f \in LiveFilters
    /\ thread.filt[f] # t
    /\ ~Inside(thread.filt[f])
    /\ thread' = [thread EXCEPT !.filt[f] = t]
    /\ UNCHANGED <<dev, ndev, nbuf, pool, filt, nfilt, op, ret, calls, out>>

\* Thread t calls a method of a Device it owns: it is inside the method, on
\* the native device self.0, until the method returns.
DeviceCall(t, d, name) ==
    /\ d \in LiveDevices
    /\ thread.dev[d] = t
    /\ ~Inside(t)
    /\ thread' = [thread EXCEPT !.in[t] =
                     Some([name |-> name, device |-> dev[d][1].handle])]
    /\ UNCHANGED <<dev, ndev, nbuf, pool, filt, nfilt, op, ret, calls, out>>

\* Thread t calls a method of a filter it owns: it is inside the method, on
\* the native device self.device.0.
RayTracingCall(t, f, name) ==
    /\ f \in LiveFilters
    /\ thread.filt[f] = t
    /\ ~Inside(t)
    /\ thread' = [thread EXCEPT !.in[t] =
                     Some([name |-> name, device |-> DeviceOf(f).handle])]
    /\ UNCHANGED <<dev, ndev, nbuf, pool, filt, nfilt, op, ret, calls, out>>

\* The method thread t is inside returns.
ThreadReturn(t) ==
    /\ Inside(t)
    /\ thread' = [thread EXCEPT !.in[t] = None]
    /\ UNCHANGED <<dev, ndev, nbuf, pool, filt, nfilt, op, ret, calls, out>>

NextThreads ==
    \/ \E d \in DevSlots, t \in Threads : SendDevice(d, t)
    \/ \E f \in FiltSlots, t \in Threads : SendRayTracing(f, t)
    \/ \E t \in Threads, d \in DevSlots, name \in DeviceMethods : DeviceCall(t, d, name)
    \/ \E t \in Threads, f \in FiltSlots, name \in FilterMethods :
          RayTracingCall(t, f, name)
    \/ \E t \in Threads : ThreadReturn(t)
    \/ \E f \in FiltSlots : ~Inside(thread.filt[f]) /\ RayTracingDrop(f)
    \/ \E d \in DevSlots : ~Inside(thread.dev[d]) /\ DeviceDrop(d)
    \/ Return

SpecThreads == InitExec /\ [][NextThreads]_vars

\* ------------------------------------------------ Buffer use specification
\* The caller's Buffers written and read between their uses as color, output
\* and auxiliary images of a filter.
NextBufUse ==
    \/ Return
    \/ \E d \in DevSlots, s \in BufferContents, allocOk \in BOOLEAN :
          CreateBuffer(d, s, allocOk)
    \/ \E b \in BagToSet(pool) : DropBuffer(b)
    \/ \E f \in FiltSlots, wh \in DimPairs : ImageDimensions(f, wh[1], wh[2])
    \/ \E f \in FiltSlots, b \in BagToSet(pool) : AlbedoBuffer(f, b)
    \/ \E f \in FiltSlots, a \in BagToSet(pool), n \in BagToSet(pool) :
          AlbedoNormalBuffer(f, a, n)
    \/ \E f \in FiltSlots, c \in BagToSet(pool), o \in BagToSet(pool) :
          FilterBuffer(f, c, o, "image", NoError)
    \/ \E f \in FiltSlots, c \in BagToSet(pool) : FilterInPlaceBuffer(f, c, "image", NoError)
    \/ \E b \in BagToSet(pool), s \in BufferContents : BufferWrite(b, s)
    \/ \E b \in BagToSet(pool), s \in BufferContents : BufferReadToSlice(b, s)
    \/ \E b \in BagToSet(pool) : BufferRead(b)

SpecBufUse == InitExec /\ [][NextBufUse]_vars

\* ------------------------------------------- configuration specification
\* The filter's parameters changed between executions.
NextConfig ==
    \/ Return
    \/ \E f \in FiltSlots, wh \in DimPairs : ImageDimensions(f, wh[1], wh[2])
    \/ \E f \in FiltSlots, q \in Qualities : FilterQuality(f, q)
    \/ \E f \in FiltSlots, b \in BOOLEAN : Hdr(f, b)
    \/ \E f \in FiltSlots, x \in InputScales : HdrScale(f, x)
    \/ \E f \in FiltSlots, x \in InputScales : InputScale(f, x)
    \/ \E f \in FiltSlots, b \in BOOLEAN : Srgb(f, b)
    \/ \E f \in FiltSlots, b \in BOOLEAN : CleanAux(f, b)
    \/ \E f \in FiltSlots, c \in SlicesOf("color"), o \in SlicesOf("output"),
          ok \in TwoAllocs :
          Filter(f, c, o, ok[1], ok[2], "denoised", NoError)
    \/ \E f \in FiltSlots, c \in SlicesOf("color"), allocOk \in BOOLEAN :
          FilterInPlace(f, c, allocOk, "denoised", NoError)

SpecConfig == InitExec /\ [][NextConfig]_vars

\* ---------------------------------------------- dimensions specification
\* A new filter given its dimensions, with every width and height a word can
\* hold, and then executed on the images of the sizes the caller has.
NextDims ==
    \/ Return
    \/ \E width \in Words, height \in Words :
          /\ FilterOf(1).img_dims = <<0, 0, 0>>
          /\ ImageDimensions(1, width, height)
    \/ \E c \in SlicesOf("color") : FilterInPlace(1, c, TRUE, "denoised", NoError)

SpecDims == InitExec /\ [][NextDims]_vars

\* --------------------------------------------------- error specification
\* Executions during which the engine finds errors, and the caller polling
\* the Device for them.
EngineOutcomes == EngineErrors \cup {NoError}
NextErr ==
    \/ Return
    \/ \E f \in FiltSlots, wh \in DimPairs : ImageDimensions(f, wh[1], wh[2])
    \/ \E f \in FiltSlots, c \in SlicesOf("color"), o \in SlicesOf("output"),
          ok \in TwoAllocs, e \in EngineOutcomes :
          Filter(f, c, o, ok[1], ok[2], "denoised", e)
    \/ \E f \in FiltSlots, c \in SlicesOf("color"), allocOk \in BOOLEAN,
          e \in EngineOutcomes :
          FilterInPlace(f, c, allocOk, "denoised", e)
    \/ \E d \in DevSlots : GetError(d)

SpecErr == InitExec /\ [][NextErr]_vars

\* ================================================================== claims
\* The last method was one of the four execution variants.
SliceExecOps == {"filter", "filter_in_place"}
BufferExecOps == {"filter_buffer", "filter_in_place_buffer"}
IsExec == op.name \in SliceExecOps \cup BufferExecOps
\* The filter it ran on (an execution changes none of the wrapper's fields)
\* and the element count that filter is configured for.
ExecFilter == FilterOf(op.f)
ExpectedLen == ExecFilter.img_dims[3]
\* Element counts of the color and output arguments of the call.
ArgLen(a) == IF op.name \in SliceExecOps THEN Len(a) ELSE a.size
ColorLen == ArgLen(op.args[1])
OutputLen == ArgLen(op.args[Len(op.args)])
WrongLen == ColorLen # ExpectedLen \/ OutputLen # ExpectedLen
\* A Buffer argument of the call was created by another Device.
ForeignArg ==
    /\ op.name \in BufferExecOps
    /\ \E i \in 1..Len(op.args) : op.args[i].device_arc # DeviceOf(op.f).arc
\* What the call did on the native side.
Called(fn) == \E i \in 1..Len(calls) : calls[i][1] = fn
EngineRan == Called("oidnCommitFilter") \/ Called("oidnExecuteFilter")
IsSetImage(i, name) == calls[i][1] = "oidnSetFilterImage" /\ calls[i][2] = name
\* An oidnNewBuffer of the call returned null (no write follows it).
AllocFailed ==
    \E i \in 1..Len(calls) :
        /\ calls[i] = Call("oidnNewBuffer")
        /\ (i = Len(calls) \/ calls[i + 1] # Call("oidnWriteBuffer"))

\* C1: an execution call whose color or output element count differs from the
\* configured 3*width*height returns an error and calls neither
\* oidnCommitFilter nor oidnExecuteFilter; the error is InvalidImageDimensions
\* unless a Buffer of another Device was passed (then it may be
\* InvalidArgument) or a transient buffer of filter / filter_in_place could
\* not be allocated (then it is OutOfMemory).
C1_WrongLenFails ==
    (IsExec /\ WrongLen) =>
        /\ ret \in Errors
        /\ ~EngineRan
        /\ ret = InvalidArgument => ForeignArg
        /\ ret = OutOfMemory => (op.name \in SliceExecOps /\ AllocFailed)
        /\ (~ForeignArg /\ ~AllocFailed) => ret = InvalidImageDimensions
\* filter_buffer with a color Buffer of the wrong size that is also foreign.
C1_Witness ==
    /\ op.name = "filter_buffer"
    /\ ColorLen # ExpectedLen
    /\ ForeignArg
    /\ ret = InvalidArgument
\* C1 as stated: a wrong element count always gives InvalidImageDimensions.
C1_Original ==
    (IsExec /\ WrongLen) => (ret = InvalidImageDimensions /\ ~EngineRan)

\* C3 as stated: an execution call that returns InvalidImageDimensions or
\* InvalidArgument has set no image and no parameter on the native filter.
C3_NoNativeMutationOnError ==
    (IsExec /\ ret \in ValidatingErrors) =>
        ~(\E i \in 1..Len(calls) :
            calls[i][1] \in {"oidnSetFilterImage", "oidnSetFilterBool",
                             "oidnSetFilterFloat", "oidnSetFilterInt"})

\* C9: in every execution call the normal image is set on the native filter
\* only after the albedo image was set in that same call, and a normal staged
\* without an albedo is not set at all.
C9_NormalOnlyAfterAlbedo ==
    IsExec =>
        /\ \A i \in 1..Len(calls) :
              IsSetImage(i, "normal") => \E j \in 1..(i - 1) : IsSetImage(j, "albedo")
        /\ ExecFilter.albedo = None =>
              ~(\E i \in 1..Len(calls) : IsSetImage(i, "normal"))
\* A successful execution on a filter that has a normal staged and no albedo.
C9_Witness ==
    /\ IsExec
    /\ ret = Ok
    /\ ExecFilter.albedo = None
    /\ IsSome(ExecFilter.normal)

\* The staged auxiliary buffers pass the checks of lines 264-302: a staged
\* albedo has the configured element count, and so has a normal staged with it.
AuxFits ==
    \/ ExecFilter.albedo = None
    \/ /\ ExecFilter.albedo[1].size = ExpectedLen
       /\ (ExecFilter.normal = None \/ ExecFilter.normal[1].size = ExpectedLen)
IsForeign(b) == b.device_arc # DeviceOf(op.f).arc
\* A size check that the code makes before the identity check that would
\* reject the foreign Buffer fails.
SizeFailsFirst ==
    \/ ~AuxFits
    \/ /\ op.name = "filter_buffer"
       /\ ~IsForeign(op.args[1])
       /\ op.args[1].size # ExpectedLen
    \/ /\ op.name = "filter_in_place_buffer"
       /\ op.args[1].size # ExpectedLen

AuxAfterDims(old, new, n) ==
    /\ IsSome(new) => new[1].size = n
    /\ (IsSome(old) /\ old[1].size # n) => new = None
    /\ (IsSome(old) /\ old[1].size = n) => new = old
    /\ old = None => new = None
C5_NoLeftoverAuxBinding ==
    (IsExec /\ ret = Ok) =>
        /\ nfilt[ExecFilter.handle].images["albedo"] => IsSome(ExecFilter.albedo)
        /\ nfilt[ExecFilter.handle].images["normal"] => IsSome(ExecFilter.normal)

\* C6: when filter or filter_in_place returns an error the caller's output
\* slice holds the values it held before the call and was not written; the
\* read-back into it happens only in a call that returns Ok, after
\* oidnExecuteFilter.
C6_OutputUntouchedOnError ==
    op.name \in SliceExecOps =>
        /\ ret \in Errors =>
              (out = op.args[Len(op.args)] /\ ~Called("oidnReadBuffer"))
        /\ \A i \in 1..Len(calls) :
              calls[i] = Call("oidnReadBuffer") =>
                 (ret = Ok /\ \E j \in 1..(i - 1) : calls[j] = Call("oidnExecuteFilter"))
\* filter fails on the output length after the color image was accepted.
C6_Witness ==
    /\ op.name = "filter"
    /\ ret = InvalidImageDimensions
    /\ \E i \in 1..Len(calls) : IsSetImage(i, "color")
    /\ Len(op.args[2]) > 0
    /\ out = op.args[2]

\* C7 as stated: after albedo_normal(albedo, normal) the staged albedo buffer
\* holds the albedo slice and the staged normal buffer holds the normal slice.
C7_AlbedoNormalStagesBoth ==
    (op.name = "albedo_normal" /\ ret = RetSelf) =>
        /\ IsSome(FilterOf(op.f).albedo)
        /\ FilterOf(op.f).albedo[1].buf = op.args[1]
        /\ IsSome(FilterOf(op.f).normal)
        /\ FilterOf(op.f).normal[1].buf = op.args[2]

\* C8: every albedo, albedo_normal, albedo_buffer and albedo_normal_buffer
\* call that returns successfully leaves an albedo staged; a normal is staged
\* without an albedo only after image_dimensions evicted an albedo of another
\* size, and that normal has the configured element count.
Setters == {"albedo", "albedo_normal", "albedo_buffer", "albedo_normal_buffer"}
NormalAlone(F) == IsSome(F.normal) /\ F.albedo = None
C8_NormalAloneOnlyByEviction ==
    \A f \in LiveFilters :
        /\ NormalAlone(FilterOf(f)) =>
              FilterOf(f).normal[1].size = FilterOf(f).img_dims[3]
        /\ (op.name \in Setters /\ op.f = f /\ ret \in {RetSelf, RetSome}) =>
              IsSome(FilterOf(f).albedo)
\* image_dimensions has just left a normal staged without an albedo.
C8_Witness ==
    /\ op.name = "image_dimensions"
    /\ NormalAlone(FilterOf(op.f))
    /\ calls = <<Call("oidnReleaseBuffer")>>
\* C8 as stated: a normal is never staged while no albedo is staged.
C8_Original == \A f \in LiveFilters : ~NormalAlone(FilterOf(f))

\* The wrappers that hold a reference on native device h: the Device wrappers
\* made for it and the filters bound to it.
Holders(h) ==
    Cardinality({d \in LiveDevices : dev[d][1].handle = h})
    + Cardinality({f \in LiveFilters : DeviceOf(f).handle = h})

\* C10: over Device creation, RayTracing::new, filter drop and Device drop the
\* retains and releases of a native device handle are balanced: its reference
\* count equals the number of live wrappers holding it (so it is at least 1
\* while the Device or a filter bound to it is alive), it falls to 0 at most
\* once and only when no holder is left, and release is never called on a
\* handle whose count is already 0.
C10_RetainReleaseBalanced ==
    \A h \in DevHandles :
        /\ ndev[h].rc = Holders(h)
        /\ ~ndev[h].over
        /\ ndev[h].freed <= 1
        /\ ndev[h].freed = 1 => Holders(h) = 0
        /\ (ndev[h].committed /\ Holders(h) = 0) => ndev[h].freed = 1
\* One device was released to 0 by dropping its Device while another is held
\* by its Device and two filters.
C10_Witness ==
    /\ op.name = "drop_device"
    /\ \E h \in DevHandles : ndev[h].freed = 1 /\ ndev[h].rc = 0
    /\ \E h \in DevHandles : ndev[h].rc = 3

\* ------------------------------------------------------------ Buffer claims
\* The operations on a Buffer the caller holds; the Buffer is op.args[1].
BufferOps == {"write", "read", "read_to_slice", "drop_buffer"}
\* The native device a Buffer was created on: Device::new makes the native
\* device and the Arc together, and in the states that follow InitExec the
\* two have the same number.
NativeDeviceOf(b) == b.device_arc

\* C11 as stated: every Buffer the caller holds keeps the native device it
\* was created on referenced (its count is at least 1), and write, read,
\* read_to_slice and drop run on a Buffer whose native device is referenced.
C11_BufferKeepsDeviceAlive ==
    /\ \A b \in BagToSet(pool) : ndev[NativeDeviceOf(b)].rc >= 1
    /\ op.name \in BufferOps => ndev[NativeDeviceOf(op.args[1])].rc >= 1

\* The Buffers staged on the live filters, and all Buffers that exist: the
\* caller's and the staged ones.
Staged(F) == (IF IsSome(F.albedo) THEN 1 ELSE 0) + (IF IsSome(F.normal) THEN 1 ELSE 0)
RECURSIVE StagedOn(_)
StagedOn(fs) ==
    IF fs = {} THEN 0
    ELSE LET f == CHOOSE x \in fs : TRUE
         IN Staged(FilterOf(f)) + StagedOn(fs \ {f})
Owned == BagCardinality(pool) + StagedOn(LiveFilters)
\* How many calls of fn the last method made.
CountCalls(fn) == Cardinality({i \in 1..Len(calls) : calls[i] = Call(fn)})

C13_NoConcurrentDeviceUse ==
    \A t1, t2 \in Threads :
        (t1 # t2 /\ Inside(t1) /\ Inside(t2)) =>
            thread.in[t1][1].device # thread.in[t2][1].device

\* The Buffer a write call left in the caller's hands: the one that took the
\* place of the Buffer it was called on.
Written(before, after, b) ==
    CHOOSE w \in BagToSet(after) : after = PoolAdd(PoolDel(before, b), w)

\* C14: for every Buffer (made by create_buffer or imported by
\* create_buffer_from_raw) and every slice s, when write(s) returns Some the
\* Buffer is left such that read() returns a vector equal to s, and
\* read_to_slice(out) with any out of the Buffer's size returns Some and
\* leaves out equal to s.
C14_WriteReadRoundTrip ==
    [][(op'.name = "write" /\ ret' = RetSome) =>
          LET b == op'.args[1]
              s == op'.args[2]
              w == Written(pool, pool', b)
          IN /\ Buffer_read(w) = s
             /\ \A o \in Slices :
                   Len(o) = b.size =>
                      /\ Buffer_read_to_slice(w, o).ret = RetSome
                      /\ Buffer_read_to_slice(w, o).contents = s]_vars
\* An imported Buffer of two floats, never written before, was written with
\* two different floats.
C14_Witness ==
    /\ op.name = "write"
    /\ ret = RetSome
    /\ op.args[1].buf = DataOf(2, "raw")
    /\ op.args[2] = <<"x", "y">>
    /\ \E w \in BagToSet(pool) : w.buf = <<"x", "y">>

\* C15: write(s) returns None exactly when the length of s differs from the
\* Buffer's size and read_to_slice(out) returns None exactly when the length
\* of out differs from it; a call that returns None makes no native call and
\* leaves the Buffer (write) and the caller's slice (read_to_slice) as they
\* were.
C15_SizeMismatchIsNone ==
    /\ op.name \in {"write", "read_to_slice"} =>
          /\ ret \in {RetNone, RetSome}
          /\ ret = RetNone <=> Len(op.args[2]) # op.args[1].size
          /\ ret = RetNone => calls = <<>>
          /\ ret = RetSome => Len(calls) = 1
    /\ (op.name = "write" /\ ret = RetNone) => InPool(op.args[1])
    /\ (op.name = "read_to_slice" /\ ret = RetNone) => out = op.args[2]
\* read_to_slice refused a slice of two floats on a Buffer of one.
C15_Witness ==
    /\ op.name = "read_to_slice"
    /\ ret = RetNone
    /\ op.args[1].size = 1
    /\ op.args[2] = <<"x", "y">>
    /\ out = <<"x", "y">>

\* What size() returns for the Buffers of a bag, as a bag of sizes.
SizesIn(p) ==
    LET sizes == {Buffer_size(b) : b \in BagToSet(p)}
    IN [n \in sizes |->
          BagCardinality([b \in {x \in BagToSet(p) : Buffer_size(x) = n} |-> p[b]])]
\* The Buffers staged on a filter, as a bag.
AuxBag(F) ==
    (IF IsSome(F.albedo) THEN SetToBag({F.albedo[1]}) ELSE EmptyBag)
    (+) (IF IsSome(F.normal) THEN SetToBag({F.normal[1]}) ELSE EmptyBag)
\* The Buffers passed to the method that ran last, as a bag.
ArgBag(args) ==
    [b \in {args[i] : i \in 1..Len(args)} |->
        Cardinality({i \in 1..Len(args) : args[i] = b})]
\* Methods that use Buffers the caller keeps, and methods that take them over.
BorrowingOps == {"read", "filter_buffer", "filter_in_place_buffer"}
SliceOps == {"write", "read_to_slice"}
StagingOps == {"albedo_buffer", "albedo_normal_buffer"}

\* C16: size() of a Buffer never changes.  write, read, read_to_slice,
\* filter_buffer and filter_in_place_buffer, whatever they return, leave the
\* sizes of the caller's Buffers and of the staged Buffers as they were; a
\* Buffer that albedo_buffer / albedo_normal_buffer stage reports the size it
\* had in the caller's hands, and the Buffers the caller keeps keep theirs.
C16_SizeFixed ==
    [][/\ op'.name \in BorrowingOps \cup SliceOps =>
             /\ SizesIn(pool') = SizesIn(pool)
             /\ \A f \in LiveFilters :
                   SizesIn(AuxBag(filt'[f][1])) = SizesIn(AuxBag(filt[f][1]))
       /\ op'.name \in SliceOps =>
             Buffer_size(Written(pool, pool', op'.args[1])) = Buffer_size(op'.args[1])
       /\ op'.name \in StagingOps =>
             SizesIn(pool') (+) SizesIn(ArgBag(op'.args)) = SizesIn(pool)
       /\ (op'.name \in StagingOps /\ ret' = RetSome) =>
             SizesIn(AuxBag(filt'[op'.f][1])) (-) SizesIn(ArgBag(op'.args))
                \sqsubseteq SizesIn(AuxBag(filt[op'.f][1]))]_vars
\* filter_buffer ran the engine into an output Buffer of three floats while
\* an albedo of three floats was staged.
C16_Witness ==
    /\ op.name = "filter_buffer"
    /\ ret = Ok
    /\ Buffer_size(op.args[2]) = 3
    /\ IsSome(ExecFilter.albedo)
    /\ Buffer_size(ExecFilter.albedo[1]) = 3

\* Buffer b was created by the Device that filter F is bound to.
CreatedByDeviceOf(F, b) == b.device_arc = dev[F.device][1].arc

CreateOrOverwrite(old, new, s) ==
    IF IsSome(old) /\ old[1].size = Len(s)
    THEN [ok |-> new = Some([old[1] EXCEPT !.buf = s]), allocs |-> 0, releases |-> 0]
    ELSE [ok |-> IsSome(new) /\ new[1].buf = s /\ new[1].size = Len(s),
          allocs |-> 1, releases |-> IF IsSome(old) THEN 1 ELSE 0]

\* C18 as stated: albedo(slice), and albedo_normal(albedo, normal) for each of
\* its two slices, overwrite the staged Buffer in place (no allocation, no
\* release) when it has the slice's element count, and otherwise allocate
\* exactly one native buffer for it, stage it, and release the Buffer that
\* was staged before, if any.
C18_CreateOrOverwrite ==
    [][(op'.name \in {"albedo", "albedo_normal"} /\ ret' = RetSelf) =>
          LET F == filt[op'.f][1]
              G == filt'[op'.f][1]
              a == CreateOrOverwrite(F.albedo, G.albedo, op'.args[1])
              n == IF op'.name = "albedo_normal"
                   THEN CreateOrOverwrite(F.normal, G.normal, op'.args[2])
                   ELSE [ok |-> G.normal = F.normal, allocs |-> 0, releases |-> 0]
              made == Cardinality({i \in 1..Len(calls') : calls'[i] = Call("oidnNewBuffer")})
              freed == Cardinality({i \in 1..Len(calls') :
                                      calls'[i] = Call("oidnReleaseBuffer")})
          IN /\ a.ok
             /\ n.ok
             /\ made = a.allocs + n.allocs
             /\ freed = a.releases + n.releases]_vars

\* The native calls of the last method that configure or run the filter,
\* without the auxiliary images and the buffer calls: function and name.
IsStep(c) ==
    \/ c[1] \in {"oidnSetFilterBool", "oidnSetFilterFloat", "oidnSetFilterInt",
                 "oidnCommitFilter", "oidnExecuteFilter"}
    \/ c[1] = "oidnSetFilterImage" /\ c[2] \in {"color", "output"}
Steps ==
    LET cs == SelectSeq(calls, IsStep)
    IN [i \in 1..Len(cs) |-> IF Len(cs[i]) >= 2 THEN <<cs[i][1], cs[i][2]>> ELSE cs[i]]
ExpectedSteps ==
    <<<<"oidnSetFilterImage", "color">>, <<"oidnSetFilterImage", "output">>,
      <<"oidnSetFilterBool", "hdr">>, <<"oidnSetFilterFloat", "inputScale">>,
      <<"oidnSetFilterBool", "srgb">>, <<"oidnSetFilterBool", "clean_aux">>,
      <<"oidnSetFilterInt", "quality">>,
      Call("oidnCommitFilter"), Call("oidnExecuteFilter")>>
\* The color and output images were set with the configured element count,
\* width and height.
ImagesAsConfigured ==
    \A i \in 1..Len(calls) :
        (IsSetImage(i, "color") \/ IsSetImage(i, "output")) =>
            <<calls[i][4], calls[i][5], calls[i][3]>> = ExecFilter.img_dims

\* C19: an execution call that returns Ok has set, once each and in this
\* order, the color image, the output image, hdr, inputScale, srgb, clean_aux
\* and quality, then committed the native filter, then executed it, and the
\* native filter then holds the values the wrapper has at that call (so a
\* change made since the execution before is in effect); a call that returns
\* an error neither commits nor executes, and no call executes without having
\* committed before.
C19_ConfigureCommitExecute ==
    IsExec =>
        /\ ret = Ok =>
              /\ Steps = ExpectedSteps
              /\ ImagesAsConfigured
              /\ LET N == nfilt[ExecFilter.handle] IN
                 /\ N.images["color"] /\ N.images["output"]
                 /\ N.hdr = Some(ExecFilter.hdr)
                 /\ N.inputScale = Some(ExecFilter.input_scale)
                 /\ N.srgb = Some(ExecFilter.srgb)
                 /\ N.clean_aux = Some(ExecFilter.clean_aux)
                 /\ N.quality = Some(ExecFilter.filter_quality)
        /\ ret # Ok => ~EngineRan
        /\ \A i \in 1..Len(calls) :
              calls[i] = Call("oidnExecuteFilter") =>
                 \E j \in 1..(i - 1) : calls[j] = Call("oidnCommitFilter")
\* filter ran on an image of one pixel with every parameter changed from the
\* value a new filter has.
C19_Witness ==
    /\ op.name = "filter"
    /\ ret = Ok
    /\ Len(op.args[1]) = 3
    /\ ExecFilter.hdr /\ ExecFilter.srgb /\ ExecFilter.clean_aux
    /\ ExecFilter.input_scale = "2.0"
    /\ ExecFilter.filter_quality = "OIDN_QUALITY_BALANCED"

\* C20: an execution call that got as far as committing and executing the
\* native filter returns Ok(()) whatever error the engine recorded on the
\* device; a call that returns an error returns one of the wrapper's own
\* (InvalidImageDimensions, InvalidArgument, or OutOfMemory for a transient
\* buffer that could not be allocated) and records nothing on the device.
\* get_error returns Ok(()) exactly when the device has no error stored and
\* otherwise Err with the kind that names the stored code and its message.
C20_EngineErrorsDeferred ==
    [][/\ IsExec' =>
             /\ EngineRan' => ret' = Ok
             /\ ret' # Ok =>
                   /\ ret' \in Errors
                   /\ ret' = OutOfMemory => AllocFailed'
                   /\ ndev' = ndev
       /\ op'.name = "get_error" =>
             LET stored == ndev[dev[op'.f][1].handle].error IN
             /\ ret' = Ok <=> stored = NoError
             /\ stored # NoError =>
                   /\ Some(ret') = Error_try_from(stored.code)
                   /\ out' = <<stored.message>>]_vars
\* filter_in_place returned Ok on an image of one pixel and the device has
\* an out-of-memory error of the engine stored.
C20_Witness ==
    /\ op.name = "filter_in_place"
    /\ ret = Ok
    /\ Len(op.args[1]) = 3
    /\ ~AllocFailed
    /\ ndev[DeviceOf(op.f).handle].error.code = "OIDN_ERROR_OUT_OF_MEMORY"

\* ------------------------------------------------------------ device claims
Factories == HostKinds \cup AccelKinds
\* The native calls of a factory that returned a Device on handle h.
NewThenCommit(h) == <<<<"oidnNewDevice", h>>, <<"oidnCommitDevice", h>>>>

C22_AccelNullIsNone ==
    [][/\ op'.name \in AccelKinds =>
             LET h == calls'[1][2] IN
             /\ calls'[1][1] = "oidnNewDevice"
             /\ ret' \in {RetNone, RetSome}
             /\ ret' = RetNone <=> h = NullHandle
             /\ h = NullHandle => /\ calls' = <<<<"oidnNewDevice", h>>>>
                                  /\ dev' = dev
                                  /\ ndev' = ndev
             /\ h # NullHandle => /\ IsSome(dev'[op'.f])
                                  /\ dev'[op'.f][1].handle = h
       /\ \A d \in DevSlots : (IsSome(dev[d]) /\ IsSome(dev'[d])) => dev'[d] = dev[d]]_vars
\* An accelerator factory returned None while the caller holds a Device.
C22_Witness ==
    /\ op.name \in AccelKinds
    /\ ret = RetNone
    /\ dev[op.f] = None
    /\ calls = <<<<"oidnNewDevice", NullHandle>>>>
    /\ UsableDevices # {}

\* --------------------------------------------------------- validation order
\* The error of the first failing check in the order: staged albedo size,
\* staged normal size, device identity of the supplied Buffers, color and
\* output sizes; Ok when none fails.
FirstFailingCheck ==
    IF IsSome(ExecFilter.albedo) /\ ExecFilter.albedo[1].size # ExpectedLen
    THEN InvalidImageDimensions
    ELSE IF IsSome(ExecFilter.normal) /\ ExecFilter.normal[1].size # ExpectedLen
    THEN InvalidImageDimensions
    ELSE IF ForeignArg THEN InvalidArgument
    ELSE IF WrongLen THEN InvalidImageDimensions
    ELSE Ok

\* C23 as stated: an execution call returns the error of the first failing
\* check in that order, so that a Buffer of another Device gives
\* InvalidArgument even when a color or output size is wrong as well.
C23_CheckOrder == (IsExec /\ ~AllocFailed) => ret = FirstFailingCheck

\* -------------------------------------------------------- transient buffers
\* The oidnNewBuffer calls of the last call that returned a buffer (the
\* contents are written into it right away).
Allocated ==
    Cardinality({i \in 1..Len(calls) :
        /\ calls[i] = Call("oidnNewBuffer")
        /\ i < Len(calls)
        /\ calls[i + 1] = Call("oidnWriteBuffer")})

\* C24: filter and filter_in_place release every native buffer they
\* allocated before they return, whatever they return: the call makes as
\* many oidnReleaseBuffer calls as it got buffers, the number of live native
\* buffers is what it was before the call, and the Buffers the caller and the
\* filters hold are untouched.
C24_TransientsReleased ==
    [][op'.name \in SliceExecOps =>
          /\ Allocated' = CountCalls("oidnReleaseBuffer")'
          /\ nbuf' = nbuf
          /\ pool' = pool
          /\ filt' = filt]_vars
\* filter got its color buffer and no output buffer, and returned
\* OutOfMemory after one release, while the filter has a Buffer staged.
C24_Witness ==
    /\ op.name = "filter"
    /\ ret = OutOfMemory
    /\ Allocated = 1
    /\ CountCalls("oidnReleaseBuffer") = 1
    /\ nbuf.live >= 1

\* The native calls that change or run a native filter.
FilterCalls ==
    {"oidnSetFilterImage", "oidnSetFilterBool", "oidnSetFilterFloat",
     "oidnSetFilterInt", "oidnCommitFilter", "oidnExecuteFilter"}

\* C25: when an oidnNewBuffer of filter or filter_in_place returns null the
\* call returns Err(OutOfMemory): it does not panic, it makes no native call
\* on the filter, the native filter is as it was, and the caller's output
\* slice is not written.
C25_AllocFailureIsOutOfMemory ==
    [][(op'.name \in SliceExecOps /\ AllocFailed') =>
          /\ ret' = OutOfMemory
          /\ \A i \in 1..Len(calls') : calls'[i][1] \notin FilterCalls
          /\ nfilt' = nfilt
          /\ out' = op'.args[Len(op'.args)]]_vars
\* filter_in_place could not allocate its buffer on a filter whose native
\* filter has images bound by an earlier execution.
C25_Witness ==
    /\ op.name = "filter_in_place"
    /\ ret = OutOfMemory
    /\ calls = <<Call("oidnNewBuffer")>>
    /\ nfilt[ExecFilter.handle].images["output"]

\* ----------------------------------------------------------- identity token
\* Whether Buffer b was created by Device wrapper D: it has the contents the
\* caller gives the Buffers of D.
CreatedBy(D, b) == b.buf = MarkOf(D)

\* C26: over Device creations and drops and Buffer creations, with the
\* allocator free to reuse the address of every Arc that was freed,
\* same_device_as_buf(d, b) is true only for the Device that created b: a
\* Buffer that outlived its Device is not taken for a Buffer of a Device
\* created later.
C26_NoFalsePositive ==
    \A d \in LiveDevices : \A b \in BagToSet(pool) :
        same_device_as_buf(dev[d][1], b) => CreatedBy(dev[d][1], b)
\* A Device was just created while the caller holds a Buffer whose Device
\* was dropped; the new Device is not the Buffer's.
C26_Witness ==
    /\ op.name = "new"
    /\ \E b \in BagToSet(pool) :
          /\ ndev[b.buf[1]].freed = 1
          /\ ~same_device_as_buf(dev[op.f][1], b)

\* --------------------------------------------------------------- overflow
\* The mathematical product 3 * width * height.
Dims_Unbounded(width, height) == Channels * width * height

\* C27 as stated: the element count a filter has stored is the product
\* 3 * width * height of the width and height it has stored, and every image
\* an execution binds on the native filter has 3 * width * height elements
\* for the width and height it is bound with.
C27_NoWraparound ==
    /\ \A f \in LiveFilters :
          LET d == FilterOf(f).img_dims IN d[3] = Dims_Unbounded(d[1], d[2])
    /\ IsExec =>
          \A i \in 1..Len(calls) :
              calls[i][1] = "oidnSetFilterImage" =>
                  calls[i][3] = Dims_Unbounded(calls[i][4], calls[i][5])

====
